---- MODULE Spec2Model ----
(***************************************************************************)
(* SOCKS5 client and server of 0xacc/socks5-proxy: the wire codec          *)
(* (utils.rs), the client state machine (client.rs) and the server state   *)
(* machine (server.rs), as state machines over two byte streams.           *)
(*                                                                         *)
(* A byte is an integer 0..255, a stream is the sequence of bytes written  *)
(* to it so far together with the number of bytes its reader has consumed. *)
(* Text (a Rust String) is the sequence of its UTF-8 bytes.                *)
(***************************************************************************)
EXTENDS Integers, Sequences, FiniteSets, TLC

(***************************************************************************)
(* utils.rs: protocol constants                                            *)
(***************************************************************************)
SOCKS_VER == 5
SOCKS_RSV == 0
SOCKS_COMMAND_CONNECT == 1
SOCKS_ADDR_IPV4 == 1
SOCKS_ADDR_IPV6 == 4
SOCKS_ADDR_DOMAINNAME == 3

\* u8::MAX, the hostname length limit of parse_dest
U8_MAX == 255
\* u16::MAX, the largest port str::parse::<u16> accepts
U16_MAX == 65535
\* [0u8; 4 + 255 + 2], the request/reply buffer of PendingConnect::connect
CONNECT_BUFFER_LEN == 261

Byte == 0..255

(***************************************************************************)
(* Bounds of the model                                                     *)
(***************************************************************************)
\* bytes of tunnelled traffic a peer may write behind its protocol messages
MaxTunnel == 1
\* most method codes a peer's greeting offers
MaxMethods == 2
\* the number of bytes each peer of a relay writes
MaxRelay == 2
\* the number of connections made to a running server
MaxConns == 2

(***************************************************************************)
(* utils.rs: AuthMethod                                                    *)
(***************************************************************************)
AuthMethod == {"NoAuth", "UserPass", "NoAvailable"}

to_code(m) ==
    CASE m = "NoAuth" -> 0
      [] m = "UserPass" -> 2
      [] m = "NoAvailable" -> 255

\* a decoding that takes every unknown code for UserPass
from_code_lenient(code) ==
    CASE code = 0 -> [ok |-> TRUE, method |-> "NoAuth"]
      [] code = 255 -> [ok |-> TRUE, method |-> "NoAvailable"]
      [] OTHER -> [ok |-> TRUE, method |-> "UserPass"]

\* Ok(method) or Err(ConnectionRefused)
from_code(code) ==
    CASE code = 0 -> [ok |-> TRUE, method |-> "NoAuth"]
      [] code = 2 -> [ok |-> TRUE, method |-> "UserPass"]
      [] code = 255 -> [ok |-> TRUE, method |-> "NoAvailable"]
      [] OTHER -> [ok |-> FALSE, method |-> "none"]

(***************************************************************************)
(* utils.rs: SocksError, its discriminants (`as u8`) and From<u8>          *)
(***************************************************************************)
SocksError ==
    {"SUCCESS", "FAIL", "DENY", "NETWORK", "HOST", "CONNECTION", "TTL",
     "COMMAND", "ADDRESS", "OTHOR"}

\* the nine reply codes of the protocol, SUCCESS through ADDRESS
ReplyCodes == SocksError \ {"OTHOR"}

\* `e as u8`: the explicit discriminants, OTHOR taking the next one
as_u8(e) ==
    CASE e = "SUCCESS" -> 0
      [] e = "FAIL" -> 1
      [] e = "DENY" -> 2
      [] e = "NETWORK" -> 3
      [] e = "HOST" -> 4
      [] e = "CONNECTION" -> 5
      [] e = "TTL" -> 6
      [] e = "COMMAND" -> 7
      [] e = "ADDRESS" -> 8
      [] e = "OTHOR" -> 9

\* a decoder that confuses two neighbouring codes
SocksError_from_swapped(code) ==
    CASE code = 1 -> "FAIL"
      [] code = 2 -> "DENY"
      [] code = 3 -> "HOST"
      [] code = 4 -> "NETWORK"
      [] code = 5 -> "CONNECTION"
      [] code = 6 -> "TTL"
      [] code = 7 -> "COMMAND"
      [] code = 8 -> "ADDRESS"
      [] OTHER -> "OTHOR"

SocksError_from(code) ==
    CASE code = 1 -> "FAIL"
      [] code = 2 -> "DENY"
      [] code = 3 -> "NETWORK"
      [] code = 4 -> "HOST"
      [] code = 5 -> "CONNECTION"
      [] code = 6 -> "TTL"
      [] code = 7 -> "COMMAND"
      [] code = 8 -> "ADDRESS"
      [] OTHER -> "OTHOR"

(***************************************************************************)
(* Errors.  A client error is an io::Error: its kind, what raised it and,  *)
(* for a SocksError wrapped by Into<io::Error>, the reply code it carries. *)
(***************************************************************************)
NoError == [kind |-> "none", what |-> "none", code |-> "none"]

IoError(kind, what) == [kind |-> kind, what |-> what, code |-> "none"]

\* impl Into<io::Error> for SocksError
SocksError_into(e) ==
    [kind |-> "ConnectionAborted", what |-> "SocksError", code |-> e]

\* a Socks5ServerError: its variant, the byte it carries (or -1) and, for
\* IOError, the kind of the io::Error
NoSrvError == [tag |-> "none", byte |-> -1, kind |-> "none"]

SrvError(tag) == [tag |-> tag, byte |-> -1, kind |-> "none"]

SrvErrorByte(tag, b) == [tag |-> tag, byte |-> b, kind |-> "none"]

SrvIOError(kind) == [tag |-> "IOError", byte |-> -1, kind |-> kind]

(***************************************************************************)
(* utils.rs: Buffer, a write cursor over a fixed slice of `len` bytes.     *)
(* `buffer` holds the bytes written so far, buffer[..pos]; the bytes       *)
(* behind pos are never read.  Indexing past the slice panics; a panicked  *)
(* buffer stays panicked.                                                  *)
(***************************************************************************)
Buffer_from(len) ==
    [buffer |-> <<>>, len |-> len, pos |-> 0, panicked |-> FALSE]

Buffer_content(b) == SubSeq(b.buffer, 1, b.pos)

Buffer_push(b, byte) ==
    IF b.panicked THEN b
    ELSE IF b.pos >= b.len THEN [b EXCEPT !.panicked = TRUE]
    ELSE [b EXCEPT !.buffer = Append(b.buffer, byte), !.pos = b.pos + 1]

Buffer_extend(b, slice) ==
    IF b.panicked THEN b
    ELSE IF b.pos + Len(slice) > b.len THEN [b EXCEPT !.panicked = TRUE]
    ELSE [b EXCEPT !.buffer = b.buffer \o slice, !.pos = b.pos + Len(slice)]

(***************************************************************************)
(* Integers on the wire                                                    *)
(***************************************************************************)
\* u16::to_be_bytes
to_be_bytes(port) == <<port \div 256, port % 256>>

\* u16::from_be_bytes
from_be_bytes(hi, lo) == hi * 256 + lo

(***************************************************************************)
(* Text.  str::split(":") as the iterator parse_dest drives: SplitNext     *)
(* yields the piece starting at index `from` (0 = iterator exhausted).     *)
(***************************************************************************)
\* b':'
COLON == 58
\* b'+', the sign str::parse::<u16> accepts in front of the digits
PLUS == 43
\* b'0'
DIGIT0 == 48

MinOf(S) == CHOOSE x \in S : \A y \in S : x <= y

SplitNext(text, from) ==
    IF from = 0 THEN [some |-> FALSE, piece |-> <<>>, next |-> 0]
    ELSE LET cols == {i \in from..Len(text) : text[i] = COLON} IN
         IF cols = {}
         THEN [some |-> TRUE, piece |-> SubSeq(text, from, Len(text)), next |-> 0]
         ELSE [some |-> TRUE, piece |-> SubSeq(text, from, MinOf(cols) - 1),
               next |-> MinOf(cols) + 1]

IsDigit(c) == c >= DIGIT0 /\ c <= DIGIT0 + 9

\* the value of a digit string, saturating just above u16::MAX
RECURSIVE DigitsValue(_, _)
DigitsValue(digits, acc) ==
    IF digits = <<>> THEN acc
    ELSE LET v == acc * 10 + (Head(digits) - DIGIT0) IN
         DigitsValue(Tail(digits), IF v > U16_MAX THEN U16_MAX + 1 ELSE v)

\* str::parse::<u16>: an optional '+', then at least one decimal digit,
\* value at most u16::MAX
parse_u16(text) ==
    LET digits == IF text # <<>> /\ Head(text) = PLUS THEN Tail(text) ELSE text IN
    IF digits = <<>> \/ \E i \in 1..Len(digits) : ~IsDigit(digits[i])
    THEN [ok |-> FALSE, value |-> 0]
    ELSE LET v == DigitsValue(digits, 0) IN
         IF v > U16_MAX THEN [ok |-> FALSE, value |-> 0]
         ELSE [ok |-> TRUE, value |-> v]

(***************************************************************************)
(* Destinations.  An Addr is SocketAddr(V4 | V6) or HostnamePort(text);    *)
(* one record shape holds all three.                                       *)
(***************************************************************************)
SocketAddrV4(ip, port) ==
    [kind |-> "V4", ip |-> ip, port |-> port, flowinfo |-> 0, scope_id |-> 0,
     text |-> <<>>]

SocketAddrV6(ip, port, flowinfo, scope_id) ==
    [kind |-> "V6", ip |-> ip, port |-> port, flowinfo |-> flowinfo,
     scope_id |-> scope_id, text |-> <<>>]

HostnamePort(text) ==
    [kind |-> "HostnamePort", ip |-> <<>>, port |-> 0, flowinfo |-> 0,
     scope_id |-> 0, text |-> text]

NoAddr ==
    [kind |-> "none", ip |-> <<>>, port |-> 0, flowinfo |-> 0, scope_id |-> 0,
     text |-> <<>>]

\* what the server decodes from a request: an address, or a host and port
DomainTarget(host, port) ==
    [kind |-> "Domain", ip |-> <<>>, port |-> port, flowinfo |-> 0,
     scope_id |-> 0, text |-> host]

(***************************************************************************)
(* client.rs: write_addr_binary! and parse_dest                            *)
(***************************************************************************)
write_addr_binary(request, addr_type, addr) ==
    Buffer_extend(
        Buffer_extend(Buffer_push(request, addr_type), addr.ip),
        to_be_bytes(addr.port))

ParseErr == IoError("InvalidInput", "bad pattern in hostname:port")

DestResult(request, err) ==
    [res |-> IF request.panicked THEN "panic"
             ELSE IF err = NoError THEN "ok" ELSE "err",
     request |-> request,
     err |-> IF request.panicked THEN NoError ELSE err]

\* a length check that lets every hostname through
HostnameTooLong_never(hostname) == Len(hostname) < 0

HostnameTooLong(hostname) == Len(hostname) > U8_MAX

parse_dest(request, dest) ==
    IF dest.kind = "V4" THEN
        DestResult(write_addr_binary(request, SOCKS_ADDR_IPV4, dest), NoError)
    ELSE IF dest.kind = "V6" THEN
        DestResult(write_addr_binary(request, SOCKS_ADDR_IPV6, dest), NoError)
    ELSE
        LET r0 == Buffer_push(request, SOCKS_ADDR_DOMAINNAME)
            hostname == SplitNext(dest.text, 1)
            port == SplitNext(dest.text, hostname.next)
            none == SplitNext(dest.text, port.next)
        IN  IF hostname.some /\ port.some /\ ~none.some THEN
                IF HostnameTooLong(hostname.piece)
                THEN DestResult(r0, IoError("InvalidInput", "hostname too long"))
                ELSE LET r1 == Buffer_extend(
                                   Buffer_push(r0, Len(hostname.piece) % 256),
                                   hostname.piece)
                         p == parse_u16(port.piece)
                     IN  IF ~p.ok THEN DestResult(r1, ParseErr)
                         ELSE DestResult(
                                  Buffer_extend(r1, to_be_bytes(p.value)),
                                  NoError)
            ELSE DestResult(r0, ParseErr)

(***************************************************************************)
(* std::str::from_utf8, as the server applies it to the received hostname  *)
(***************************************************************************)
IsCont(b) == b >= 128 /\ b <= 191

RECURSIVE Utf8From(_, _)
Utf8From(s, i) ==
    IF i > Len(s) THEN TRUE
    ELSE LET b == s[i]
             has(n) == i + n <= Len(s)
         IN  IF b < 128 THEN Utf8From(s, i + 1)
             ELSE IF b >= 194 /\ b <= 223
                  THEN has(1) /\ IsCont(s[i + 1]) /\ Utf8From(s, i + 2)
             ELSE IF b >= 224 /\ b <= 239
                  THEN /\ has(2)
                       /\ IsCont(s[i + 1]) /\ IsCont(s[i + 2])
                       /\ (b = 224 => s[i + 1] >= 160)
                       /\ (b = 237 => s[i + 1] <= 159)
                       /\ Utf8From(s, i + 3)
             ELSE IF b >= 240 /\ b <= 244
                  THEN /\ has(3)
                       /\ IsCont(s[i + 1]) /\ IsCont(s[i + 2]) /\ IsCont(s[i + 3])
                       /\ (b = 240 => s[i + 1] >= 144)
                       /\ (b = 244 => s[i + 1] <= 143)
                       /\ Utf8From(s, i + 4)
             ELSE FALSE

from_utf8_ok(s) ==
    IF \A i \in 1..Len(s) : s[i] < 128 THEN TRUE ELSE Utf8From(s, 1)

(***************************************************************************)
(* Streams.  read_exact(n) on a stream of which `pos` bytes are consumed:  *)
(* it completes when n more bytes are there, fails with UnexpectedEof when *)
(* the writer has closed before that, and waits otherwise.                 *)
(***************************************************************************)
ReadStatus(stream, pos, closed, n) ==
    IF Len(stream) - pos >= n THEN "ok"
    ELSE IF closed THEN "eof" ELSE "block"

\* the n bytes behind position pos
Peek(stream, pos, n) == SubSeq(stream, pos + 1, pos + n)

(***************************************************************************)
(* client.rs: the pure parts of the three client phases                    *)
(***************************************************************************)
\* PendingHandshake::handshake, the greeting it writes
client_greeting(method) == <<SOCKS_VER, 1, to_code(method)>>

\* a check that rejects the echoed method instead of accepting it
client_handshake_check_inverted(buffer, method) ==
    IF buffer[1] # SOCKS_VER
    THEN IoError("ConnectionAborted", "unsupported protocol")
    ELSE LET auth == from_code(buffer[2]) IN
         IF ~auth.ok
         THEN IoError("ConnectionRefused", "unsupported authenticate method")
         ELSE IF auth.method = "NoAvailable"
         THEN IoError("ConnectionRefused",
                      "no supported authenticate method available")
         ELSE IF to_code(auth.method) = to_code(method)
         THEN IoError("ConnectionAborted", "unsupported protocol")
         ELSE NoError

\* PendingHandshake::handshake, what it makes of the 2-byte selection reply:
\* NoError, or the error it returns
client_handshake_check(buffer, method) ==
    IF buffer[1] # SOCKS_VER
    THEN IoError("ConnectionAborted", "unsupported protocol")
    ELSE LET auth == from_code(buffer[2]) IN
         IF ~auth.ok
         THEN IoError("ConnectionRefused", "unsupported authenticate method")
         ELSE IF auth.method = "NoAvailable"
         THEN IoError("ConnectionRefused",
                      "no supported authenticate method available")
         ELSE IF to_code(auth.method) # to_code(method)
         THEN IoError("ConnectionAborted", "unsupported protocol")
         ELSE NoError

\* PendingAuthenticate::authenticate
client_authenticate(auth) ==
    IF auth = "NoAuth" THEN NoError
    ELSE IoError("Other", "authenticate method not implemented")

\* PendingConnect::connect, the request it builds in its buffer
connect_request(dest) ==
    parse_dest(
        Buffer_extend(Buffer_from(CONNECT_BUFFER_LEN),
                      <<SOCKS_RSV, SOCKS_COMMAND_CONNECT, SOCKS_RSV>>),
        dest)

\* a header check that forgets the reply code
connect_header_check_norep(header) ==
    IF header[1] # SOCKS_VER \/ header[3] # SOCKS_RSV
    THEN IoError("ConnectionAborted", "unsupported protocol")
    ELSE NoError

\* PendingConnect::connect, what it makes of the 4-byte reply header:
\* NoError (go on to extract_address), or the error it returns at once
connect_header_check(header) ==
    IF header[1] # SOCKS_VER \/ header[3] # SOCKS_RSV
    THEN IoError("ConnectionAborted", "unsupported protocol")
    ELSE IF header[2] # as_u8("SUCCESS")
    THEN SocksError_into(SocksError_from(header[2]))
    ELSE NoError

\* extract_address, the bytes of a fixed-size address and its port
FixedAddrLen(addr_type) ==
    IF addr_type = SOCKS_ADDR_IPV4 THEN 4 + 2 ELSE 16 + 2

\* a domain read that forgets the two port bytes
DomainRestLen_noport(len) == len

\* extract_address, the bytes read behind a domain name's length byte
DomainRestLen(len) == len + 2

\* PendingConnect::extract_address on the stream behind the header:
\* st is "ok", "err" or "block" (a read still waiting), used the bytes read
extract_address(addr_type, stream, pos, closed) ==
    IF addr_type \in {SOCKS_ADDR_IPV4, SOCKS_ADDR_IPV6} THEN
        LET n == FixedAddrLen(addr_type)
            st == ReadStatus(stream, pos, closed, n)
        IN  IF st = "ok" THEN [st |-> "ok", used |-> n, err |-> NoError]
            ELSE IF st = "eof"
            THEN [st |-> "err", used |-> Len(stream) - pos,
                  err |-> IoError("UnexpectedEof", "read_exact")]
            ELSE [st |-> "block", used |-> 0, err |-> NoError]
    ELSE IF addr_type = SOCKS_ADDR_DOMAINNAME THEN
        LET st1 == ReadStatus(stream, pos, closed, 1) IN
        IF st1 = "eof"
        THEN [st |-> "err", used |-> 0,
              err |-> IoError("UnexpectedEof", "read_exact")]
        ELSE IF st1 = "block" THEN [st |-> "block", used |-> 0, err |-> NoError]
        ELSE LET len == stream[pos + 1]
                 n == DomainRestLen(len)
                 st2 == ReadStatus(stream, pos + 1, closed, n)
             IN  IF st2 = "ok"
                 THEN [st |-> "ok", used |-> 1 + n, err |-> NoError]
                 ELSE IF st2 = "eof"
                 THEN [st |-> "err", used |-> Len(stream) - pos,
                       err |-> IoError("UnexpectedEof", "read_exact")]
                 ELSE [st |-> "block", used |-> 1, err |-> NoError]
    ELSE [st |-> "err", used |-> 0,
          err |-> IoError("ConnectionAborted", "unsupported address type")]

(***************************************************************************)
(* server.rs: the pure parts of the server phases                          *)
(***************************************************************************)
\* PendingHandshake::handshake, the scan of the offered method codes
MethodMatched(methods, auth) ==
    \E i \in 1..Len(methods) : methods[i] = to_code(auth)

\* PendingHandshake::handshake on the stream: st is "ok", "err" or "block"
server_handshake(stream, pos, closed, auth) ==
    LET st1 == ReadStatus(stream, pos, closed, 2) IN
    IF st1 = "eof"
    THEN [st |-> "err", used |-> Len(stream) - pos,
          err |-> SrvIOError("UnexpectedEof")]
    ELSE IF st1 = "block" THEN [st |-> "block", used |-> 0, err |-> NoSrvError]
    ELSE LET header == Peek(stream, pos, 2) IN
         IF header[1] # SOCKS_VER
         THEN [st |-> "err", used |-> 2, err |-> SrvError("UnknowProtocol")]
         ELSE LET st2 == ReadStatus(stream, pos + 2, closed, header[2]) IN
              IF st2 = "eof"
              THEN [st |-> "err", used |-> Len(stream) - pos,
                    err |-> SrvIOError("UnexpectedEof")]
              ELSE IF st2 = "block"
              THEN [st |-> "block", used |-> 0, err |-> NoSrvError]
              ELSE IF ~MethodMatched(Peek(stream, pos + 2, header[2]), auth)
              THEN [st |-> "err", used |-> 2 + header[2],
                    err |-> SrvError("UnsupportAuth")]
              ELSE [st |-> "ok", used |-> 2 + header[2], err |-> NoSrvError]

\* PendingHandshake::handshake, the selection reply it writes on a match
server_selection(auth) == <<SOCKS_VER, to_code(auth)>>

\* PendingAuthenticate::authenticate
server_authenticate(auth) ==
    IF auth = "NoAuth" THEN NoSrvError ELSE SrvError("UnsupportAuth")

\* the answers of the name-resolution service behind to_socket_addrs
DnsAnswers == {"error", "empty", "found"}

\* the address a successful lookup yields
ResolvedAddr(port) == SocketAddrV4(<<10, 0, 0, 1>>, port)

CmdResult(st, used, err, target, addr) ==
    [st |-> st, used |-> used, err |-> err, target |-> target, addr |-> addr]

CmdEof(stream, pos) ==
    CmdResult("err", Len(stream) - pos, SrvIOError("UnexpectedEof"), NoAddr, NoAddr)

CmdBlock == CmdResult("block", 0, NoSrvError, NoAddr, NoAddr)

\* handle_command, the lookup of a decoded host and port
resolve(host, port, used, answer) ==
    IF ~from_utf8_ok(host)
    THEN CmdResult("err", used, SrvError("InvalidHost"), NoAddr, NoAddr)
    ELSE IF answer = "error"
    THEN CmdResult("err", used, SrvIOError("Other"), DomainTarget(host, port), NoAddr)
    ELSE IF answer = "empty"
    THEN CmdResult("err", used, SrvError("DNSError"), DomainTarget(host, port), NoAddr)
    ELSE CmdResult("ok", used, NoSrvError, DomainTarget(host, port),
                   ResolvedAddr(port))

\* handle_command, the destination behind a valid 4-byte header (pos is
\* the position behind the header)
decode_dest(addr_type, stream, pos, closed, answer) ==
    IF addr_type = SOCKS_ADDR_IPV4 THEN
        LET st == ReadStatus(stream, pos, closed, 4 + 2)
            buffer == Peek(stream, pos, 4 + 2)
        IN  IF st = "eof" THEN CmdEof(stream, pos - 4)
            ELSE IF st = "block" THEN CmdBlock
            ELSE LET addr == SocketAddrV4(SubSeq(buffer, 1, 4),
                                          from_be_bytes(buffer[5], buffer[6]))
                 IN  CmdResult("ok", 4 + 4 + 2, NoSrvError, addr, addr)
    ELSE IF addr_type = SOCKS_ADDR_IPV6 THEN
        LET st == ReadStatus(stream, pos, closed, 16 + 2)
            buffer == Peek(stream, pos, 16 + 2)
        IN  IF st = "eof" THEN CmdEof(stream, pos - 4)
            ELSE IF st = "block" THEN CmdBlock
            ELSE LET addr == SocketAddrV6(SubSeq(buffer, 1, 16),
                                          from_be_bytes(buffer[17], buffer[18]),
                                          0, 0)
                 IN  CmdResult("ok", 4 + 16 + 2, NoSrvError, addr, addr)
    ELSE IF addr_type = SOCKS_ADDR_DOMAINNAME THEN
        LET st1 == ReadStatus(stream, pos, closed, 1) IN
        IF st1 = "eof" THEN CmdEof(stream, pos - 4)
        ELSE IF st1 = "block" THEN CmdBlock
        ELSE LET len == stream[pos + 1]
                 st2 == ReadStatus(stream, pos + 1, closed, len + 2)
                 host == Peek(stream, pos + 1, len)
                 port == Peek(stream, pos + 1 + len, 2)
             IN  IF st2 = "eof" THEN CmdEof(stream, pos - 4)
                 ELSE IF st2 = "block" THEN CmdBlock
                 ELSE resolve(host, from_be_bytes(port[1], port[2]),
                              4 + 1 + len + 2, answer)
    ELSE CmdResult("err", 4, SrvErrorByte("UnknowAddrType", addr_type),
                   NoAddr, NoAddr)

\* PendingCommand::handle_command on the stream
handle_command(stream, pos, closed, answer) ==
    LET st == ReadStatus(stream, pos, closed, 4)
        header == Peek(stream, pos, 4)
    IN  IF st = "eof" THEN CmdEof(stream, pos)
        ELSE IF st = "block" THEN CmdBlock
        ELSE IF header[1] # SOCKS_VER \/ header[3] # SOCKS_RSV
        THEN CmdResult("err", 4, SrvError("UnknowProtocol"), NoAddr, NoAddr)
        ELSE IF header[2] # SOCKS_COMMAND_CONNECT
        THEN CmdResult("err", 4, SrvErrorByte("UnsupportCommand", header[2]),
                       NoAddr, NoAddr)
        ELSE decode_dest(header[4], stream, pos + 4, closed, answer)

\* handle_client's Err arm with the COMMAND and ADDRESS codes exchanged
ErrorReplyCode_exchanged(e) ==
    as_u8(CASE e.tag = "DNSError" -> "HOST"
            [] e.tag = "UnsupportCommand" -> "ADDRESS"
            [] e.tag = "UnknowAddrType" -> "COMMAND"
            [] OTHER -> "FAIL")

\* handle_client, the reply it builds: SUCCESS with a placeholder address
Rep(code) == <<SOCKS_VER, code, SOCKS_RSV, SOCKS_ADDR_IPV4, 0, 0, 0, 0, 0, 0>>

\* handle_client, the reply code for a failed handle_command
ErrorReplyCode(e) ==
    as_u8(CASE e.tag = "DNSError" -> "HOST"
            [] e.tag = "UnsupportCommand" -> "COMMAND"
            [] e.tag = "UnknowAddrType" -> "ADDRESS"
            [] OTHER -> "FAIL")

(***************************************************************************)
(* State                                                                   *)
(***************************************************************************)
VARIABLES
    \* client: the caller's inputs, the position in client::new, the phase
    \* reached, what new returned, its error and the phase that failed
    cAuth, dest, cpc, cPhase, cRet, cerr, cFailedIn, cHeader,
    \* transport: whether the proxy accepts TCP connections, whether the
    \* connection exists, the bytes written in each direction, the bytes
    \* each side has read, and which side has dropped its stream
    proxyUp, connected, c2s, s2c, cRead, sRead, cClosed, sClosed,
    \* server: the configured method, the resolver's answer and whether the
    \* destination accepts connections, the position in handle_client, the
    \* phase reached, the error, the phase that failed, the result of
    \* handle_command, the upstream connection and the relay tasks spawned
    sAuth, dns, reachable, spc, sPhase, serr, sFailedIn, scmd, upstream, relay,
    \* a peer that is not this repository's code: what it has sent so far
    eStage, eTunnel,
    \* the codec on its own: a destination, its encoding and its decoding,
    \* and a reply code, its byte and the value decoded from the byte
    kDest, kStage, kEnc, kDec, rcVal, rcByte, rcBack,
    \* relay: the bytes the destination wrote and the bytes written to it,
    \* how far delegate_r has read, and per copy task its buffer, its
    \* position and what tokio::io::copy returned; how often each write half
    \* was shut down; and what each peer of the relay has done to its end
    u2s, s2u, uRead, copyBuf, copyPc, copyRes, wShut, peer,
    \* run with several connections: per connection the position of its
    \* task, the bytes its peer wrote, how far the task has read, whether
    \* the peer closed, the bytes written to the peer, the result of
    \* handle_command, the destination's answer and the error logged; and
    \* the state of the accept loop
    conns, listener

clientVars == <<cAuth, dest, cpc, cPhase, cRet, cerr, cFailedIn, cHeader>>
netVars == <<proxyUp, connected, c2s, s2c, cRead, sRead, cClosed, sClosed>>
serverVars ==
    <<sAuth, dns, reachable, spc, sPhase, serr, sFailedIn, scmd, upstream, relay>>
envVars == <<eStage, eTunnel>>
codecVars == <<kDest, kStage, kEnc, kDec, rcVal, rcByte, rcBack>>
relayVars == <<u2s, s2u, uRead, copyBuf, copyPc, copyRes, wShut, peer>>
serveVars == <<conns, listener>>
vars ==
    <<clientVars, netVars, serverVars, envVars, codecVars, relayVars, serveVars>>

NoEnc == [res |-> "none", request |-> Buffer_from(0), err |-> NoError]
NoCmd == CmdResult("none", 0, NoSrvError, NoAddr, NoAddr)

(***************************************************************************)
(* Inputs                                                                  *)
(***************************************************************************)
\* n bytes 'a'
HostA(n) == [i \in 1..n |-> 97]

\* "host:port"
HostPortText(host, port) == host \o <<COLON>> \o port

\* "80", "0", "257", "65535", "65536", "99999", "+80", "", "8a"
PortTexts ==
    {<<56, 48>>, <<48>>, <<50, 53, 55>>, <<54, 53, 53, 51, 53>>,
     <<54, 53, 53, 51, 54>>, <<57, 57, 57, 57, 57>>, <<43, 56, 48>>, <<>>,
     <<56, 97>>}

\* hostnames of 0, 1, 2, 254, 255, 256 and 300 bytes, "host", and a
\* two-byte UTF-8 character
Hostnames ==
    {HostA(0), HostA(1), HostA(2), HostA(254), HostA(255), HostA(256),
     HostA(300), <<104, 111, 115, 116>>, <<195, 169>>}

\* "host" and "h:80:1"
MalformedTexts == {<<104, 111, 115, 116>>, <<104, 58, 56, 48, 58, 49>>}

Ports == {0, 80, 257, 65535}

V4Dests ==
    {SocketAddrV4(ip, port) :
        ip \in {<<93, 184, 216, 34>>, <<0, 0, 0, 0>>, <<255, 255, 255, 255>>},
        port \in Ports}

V6Dests ==
    {SocketAddrV6(ip, port, scope, scope) :
        ip \in {[i \in 1..16 |-> i], [i \in 1..16 |-> 0]},
        port \in {80, 257}, scope \in {0, 3}}

HostDests ==
    {HostnamePort(HostPortText(h, p)) : h \in Hostnames, p \in PortTexts}
        \cup {HostnamePort(t) : t \in MalformedTexts}

\* every destination the codec is tried on
CodecDests == V4Dests \cup V6Dests \cup HostDests

\* the destinations of the connection scenarios
ConnDests ==
    {SocketAddrV4(<<93, 184, 216, 34>>, 80),
     SocketAddrV6([i \in 1..16 |-> i], 257, 0, 0)}
        \cup {HostnamePort(HostPortText(h, <<56, 48>>)) :
                h \in {HostA(1), HostA(254), HostA(255), HostA(256), HostA(300)}}
        \cup {HostnamePort(HostPortText(<<104, 111, 115, 116>>, p)) :
                p \in {<<57, 57, 57, 57, 57>>, <<>>}}
        \cup {HostnamePort(t) : t \in MalformedTexts}

\* a write to a stream whose peer has dropped it may fail or still succeed
WriteOutcomes(peerClosed) == IF peerClosed THEN {TRUE, FALSE} ELSE {TRUE}

(***************************************************************************)
(* Initial states.  Each part of the state has an idle value, and each     *)
(* specification starts the parts it runs.                                 *)
(***************************************************************************)
ClientIdle ==
    /\ cAuth = "NoAuth" /\ dest = NoAddr /\ cpc = "Env" /\ cPhase = "Fresh"
    /\ cRet = "none" /\ cerr = NoError /\ cFailedIn = "none" /\ cHeader = <<>>

ClientStart ==
    /\ cAuth \in AuthMethod /\ dest \in ConnDests /\ cpc = "New"
    /\ cPhase = "Fresh" /\ cRet = "none" /\ cerr = NoError
    /\ cFailedIn = "none" /\ cHeader = <<>>

NetStart ==
    /\ connected = FALSE /\ c2s = <<>> /\ s2c = <<>> /\ cRead = 0 /\ sRead = 0
    /\ cClosed = FALSE /\ sClosed = FALSE

ServerIdle ==
    /\ sAuth = "NoAuth" /\ dns = "found" /\ reachable = TRUE /\ spc = "Env"
    /\ sPhase = "Fresh" /\ serr = NoSrvError /\ sFailedIn = "none"
    /\ scmd = NoCmd /\ upstream = "none" /\ relay = {}

ServerStart ==
    /\ sAuth \in AuthMethod /\ dns \in DnsAnswers /\ reachable \in BOOLEAN
    /\ spc = "Listening" /\ sPhase = "Fresh" /\ serr = NoSrvError
    /\ sFailedIn = "none" /\ scmd = NoCmd /\ upstream = "none" /\ relay = {}

EnvStart == eStage = "none" /\ eTunnel = 0

CodecIdle ==
    /\ kDest = NoAddr /\ kStage = "idle" /\ kEnc = NoEnc /\ kDec = NoCmd
    /\ rcVal = "none" /\ rcByte = -1 /\ rcBack = "none"

(***************************************************************************)
(* client.rs: client::new, one action per I/O step                         *)
(***************************************************************************)
\* `?` in client::new: the error is returned and the stream dropped
CFail(err, phase) ==
    /\ cpc' = "Failed" /\ cRet' = "Err" /\ cerr' = err /\ cFailedIn' = phase
    /\ cClosed' = TRUE

\* new, TcpStream::connect(server)
CNew ==
    /\ cpc = "New"
    /\ IF proxyUp
       THEN /\ connected' = TRUE /\ cpc' = "PendingHandshake"
            /\ UNCHANGED <<cRet, cerr, cFailedIn, cClosed>>
       ELSE /\ CFail(IoError("ConnectionRefused", "TcpStream::connect"), "tcp")
            /\ UNCHANGED connected
    /\ UNCHANGED <<cAuth, dest, cPhase, cHeader, proxyUp, c2s, s2c, cRead, sRead,
                   sClosed, serverVars, envVars, codecVars,
                   relayVars, serveVars>>

\* a handshake that does not wait for the selection reply: behind the
\* greeting the client goes on to connect
CHandshakeWrite_no_selection ==
    /\ cpc = "PendingHandshake"
    /\ c2s' = c2s \o client_greeting(cAuth)
    /\ cpc' = "PendingConnect" /\ cPhase' = "Authenticated"
    /\ UNCHANGED <<cRet, cerr, cFailedIn, cClosed>>
    /\ UNCHANGED <<cAuth, dest, cHeader, proxyUp, connected, s2c, cRead, sRead,
                   sClosed, serverVars, envVars, codecVars, relayVars, serveVars>>

\* handshake, write_all of the greeting
CHandshakeWrite ==
    /\ cpc = "PendingHandshake"
    /\ \E wok \in WriteOutcomes(sClosed) :
         IF wok
         THEN /\ c2s' = c2s \o client_greeting(cAuth)
              /\ cpc' = "HandshakeRead"
              /\ UNCHANGED <<cRet, cerr, cFailedIn, cClosed>>
         ELSE /\ CFail(IoError("BrokenPipe", "write_all"), "handshake")
              /\ UNCHANGED c2s
    /\ UNCHANGED <<cAuth, dest, cPhase, cHeader, proxyUp, connected, s2c, cRead,
                   sRead, sClosed, serverVars, envVars, codecVars,
                   relayVars, serveVars>>

\* handshake, read_exact of the selection reply and the checks on it
CHandshakeRead ==
    /\ cpc = "HandshakeRead"
    /\ LET st == ReadStatus(s2c, cRead, sClosed, 2)
           e == client_handshake_check(Peek(s2c, cRead, 2), cAuth)
       IN  /\ st # "block"
           /\ IF st = "eof"
              THEN /\ CFail(IoError("UnexpectedEof", "read_exact"), "handshake")
                   /\ cRead' = Len(s2c)
                   /\ UNCHANGED cPhase
              ELSE /\ cRead' = cRead + 2
                   /\ IF e = NoError
                      THEN /\ cpc' = "PendingAuthenticate"
                           /\ cPhase' = "HandshakeDone"
                           /\ UNCHANGED <<cRet, cerr, cFailedIn, cClosed>>
                      ELSE /\ CFail(e, "handshake")
                           /\ UNCHANGED cPhase
    /\ UNCHANGED <<cAuth, dest, cHeader, proxyUp, connected, c2s, s2c, sRead,
                   sClosed, serverVars, envVars, codecVars,
                   relayVars, serveVars>>

\* authenticate
CAuthenticate ==
    /\ cpc = "PendingAuthenticate"
    /\ LET e == client_authenticate(cAuth) IN
       IF e = NoError
       THEN /\ cpc' = "PendingConnect" /\ cPhase' = "Authenticated"
            /\ UNCHANGED <<cRet, cerr, cFailedIn, cClosed>>
       ELSE /\ CFail(e, "authenticate")
            /\ UNCHANGED cPhase
    /\ UNCHANGED <<cAuth, dest, cHeader, proxyUp, connected, c2s, s2c, cRead,
                   sRead, sClosed, serverVars, envVars, codecVars,
                   relayVars, serveVars>>

\* connect, building the request and write_all of it.  A panic in Buffer
\* unwinds the caller's task, which drops the stream.
CConnectWrite ==
    /\ cpc = "PendingConnect"
    /\ LET r == connect_request(dest) IN
       IF r.res = "panic"
       THEN /\ cpc' = "Panicked" /\ cRet' = "Panic" /\ cFailedIn' = "connect"
            /\ cClosed' = TRUE
            /\ UNCHANGED <<cerr, c2s>>
       ELSE IF r.res = "err"
       THEN /\ CFail(r.err, "connect")
            /\ UNCHANGED c2s
       ELSE \E wok \in WriteOutcomes(sClosed) :
              IF wok
              THEN /\ c2s' = c2s \o Buffer_content(r.request)
                   /\ cpc' = "ConnectRead"
                   /\ UNCHANGED <<cRet, cerr, cFailedIn, cClosed>>
              ELSE /\ CFail(IoError("BrokenPipe", "write_all"), "connect")
                   /\ UNCHANGED c2s
    /\ UNCHANGED <<cAuth, dest, cPhase, cHeader, proxyUp, connected, s2c, cRead,
                   sRead, sClosed, serverVars, envVars, codecVars,
                   relayVars, serveVars>>

\* connect, read_exact of the reply header and the checks on it
CConnectHeader ==
    /\ cpc = "ConnectRead"
    /\ LET st == ReadStatus(s2c, cRead, sClosed, 4)
           header == Peek(s2c, cRead, 4)
           e == connect_header_check(header)
       IN  /\ st # "block"
           /\ IF st = "eof"
              THEN /\ CFail(IoError("UnexpectedEof", "read_exact"), "connect")
                   /\ cRead' = Len(s2c)
                   /\ UNCHANGED cHeader
              ELSE /\ cRead' = cRead + 4
                   /\ cHeader' = header
                   /\ IF e = NoError
                      THEN /\ cpc' = "ExtractAddress"
                           /\ UNCHANGED <<cRet, cerr, cFailedIn, cClosed>>
                      ELSE CFail(e, "connect")
    /\ UNCHANGED <<cAuth, dest, cPhase, proxyUp, connected, c2s, s2c, sRead,
                   sClosed, serverVars, envVars, codecVars,
                   relayVars, serveVars>>

\* connect, extract_address and the return of the stream to the caller
CExtractAddress ==
    /\ cpc = "ExtractAddress"
    /\ LET r == extract_address(cHeader[4], s2c, cRead, sClosed) IN
       /\ r.st # "block"
       /\ cRead' = cRead + r.used
       /\ IF r.st = "ok"
          THEN /\ cpc' = "Established" /\ cRet' = "Ok" /\ cPhase' = "Negotiated"
               /\ UNCHANGED <<cerr, cFailedIn, cClosed>>
          ELSE /\ CFail(r.err, "connect")
               /\ UNCHANGED cPhase
    /\ UNCHANGED <<cAuth, dest, cHeader, proxyUp, connected, c2s, s2c, sRead,
                   sClosed, serverVars, envVars, codecVars,
                   relayVars, serveVars>>

ClientNext ==
    \/ CNew \/ CHandshakeWrite \/ CHandshakeRead \/ CAuthenticate
    \/ CConnectWrite \/ CConnectHeader \/ CExtractAddress

(***************************************************************************)
(* server.rs: Socks5Server::run and handle_client, one action per I/O step *)
(***************************************************************************)
\* `?` in handle_client: the error is returned (and logged by run), the
\* client stream and any upstream stream are dropped
SFail(err, phase) ==
    /\ spc' = "Failed" /\ serr' = err /\ sFailedIn' = phase /\ sClosed' = TRUE
    /\ upstream' = IF upstream = "open" THEN "closed" ELSE upstream

\* run, accept and the spawn of handle_client
SAccept ==
    /\ spc = "Listening" /\ connected
    /\ spc' = "PendingHandshake"
    /\ UNCHANGED <<sAuth, dns, reachable, sPhase, serr, sFailedIn, scmd, upstream,
                   relay, clientVars, netVars, envVars, codecVars,
                   relayVars, serveVars>>

\* handshake: the greeting is read and, on a match, the selection written
SHandshake ==
    /\ spc = "PendingHandshake"
    /\ LET r == server_handshake(c2s, sRead, cClosed, sAuth) IN
       /\ r.st # "block"
       /\ sRead' = sRead + r.used
       /\ IF r.st = "err"
          THEN /\ SFail(r.err, "handshake")
               /\ UNCHANGED <<s2c, sPhase>>
          ELSE \E wok \in WriteOutcomes(cClosed) :
                 IF wok
                 THEN /\ s2c' = s2c \o server_selection(sAuth)
                      /\ spc' = "PendingAuthenticate"
                      /\ sPhase' = "HandshakeDone"
                      /\ UNCHANGED <<serr, sFailedIn, sClosed, upstream>>
                 ELSE /\ SFail(SrvIOError("BrokenPipe"), "handshake")
                      /\ UNCHANGED <<s2c, sPhase>>
    /\ UNCHANGED <<sAuth, dns, reachable, scmd, relay, clientVars, proxyUp,
                   connected, c2s, cRead, cClosed, envVars, codecVars,
                   relayVars, serveVars>>

\* authenticate
SAuthenticate ==
    /\ spc = "PendingAuthenticate"
    /\ LET e == server_authenticate(sAuth) IN
       IF e = NoSrvError
       THEN /\ spc' = "PendingCommand" /\ sPhase' = "Authenticated"
            /\ UNCHANGED <<serr, sFailedIn, sClosed, upstream>>
       ELSE /\ SFail(e, "authenticate")
            /\ UNCHANGED sPhase
    /\ UNCHANGED <<sAuth, dns, reachable, scmd, relay, clientVars, proxyUp,
                   connected, c2s, s2c, cRead, sRead, cClosed, envVars, codecVars,
                   relayVars, serveVars>>

\* handle_client, conn.handle_command().await
SHandleCommand ==
    /\ spc = "PendingCommand"
    /\ LET r == handle_command(c2s, sRead, cClosed, dns) IN
       /\ r.st # "block"
       /\ sRead' = sRead + r.used
       /\ scmd' = r
       /\ spc' = "CommandDone"
    /\ UNCHANGED <<sAuth, dns, reachable, sPhase, serr, sFailedIn, upstream, relay,
                   clientVars, proxyUp, connected, c2s, s2c, cRead, cClosed,
                   sClosed, envVars, codecVars,
                   relayVars, serveVars>>

\* handle_client, the Err arm: the reply with the mapped code, then the
\* error is returned; a failed write returns its own error instead
SReplyError ==
    /\ spc = "CommandDone" /\ scmd.st = "err"
    /\ \E wok \in WriteOutcomes(cClosed) :
         IF wok
         THEN /\ s2c' = s2c \o Rep(ErrorReplyCode(scmd.err))
              /\ SFail(scmd.err, "command")
         ELSE /\ SFail(SrvIOError("BrokenPipe"), "command")
              /\ UNCHANGED s2c
    /\ UNCHANGED <<sAuth, dns, reachable, sPhase, scmd, relay, clientVars, proxyUp,
                   connected, c2s, cRead, sRead, cClosed, envVars, codecVars,
                   relayVars, serveVars>>

\* handle_client, TcpStream::connect(addr) and, when it fails, the
\* NETWORK reply
SConnect ==
    /\ spc = "CommandDone" /\ scmd.st = "ok"
    /\ IF reachable
       THEN /\ upstream' = "open" /\ spc' = "Connected"
            /\ UNCHANGED <<serr, sFailedIn, sClosed, s2c>>
       ELSE \E wok \in WriteOutcomes(cClosed) :
              IF wok
              THEN /\ s2c' = s2c \o Rep(as_u8("NETWORK"))
                   /\ SFail(SrvIOError("ConnectionRefused"), "connect")
              ELSE /\ SFail(SrvIOError("BrokenPipe"), "connect")
                   /\ UNCHANGED s2c
    /\ UNCHANGED <<sAuth, dns, reachable, sPhase, scmd, relay, clientVars, proxyUp,
                   connected, c2s, cRead, sRead, cClosed, envVars, codecVars,
                   relayVars, serveVars>>

\* a reply step that spawns the copy tasks whether or not the write of
\* the reply succeeded
SReplySuccess_spawn_anyway ==
    /\ spc = "Connected"
    /\ \E wok \in WriteOutcomes(cClosed) :
         /\ s2c' = IF wok THEN s2c \o Rep(as_u8("SUCCESS")) ELSE s2c
         /\ spc' = "Relaying" /\ sPhase' = "Negotiated"
         /\ relay' = {"client_to_upstream", "upstream_to_client"}
         /\ UNCHANGED <<serr, sFailedIn, sClosed, upstream>>
    /\ UNCHANGED <<sAuth, dns, reachable, scmd, clientVars, proxyUp, connected,
                   c2s, cRead, sRead, cClosed, envVars, codecVars, relayVars,
                   serveVars>>

\* handle_client, the SUCCESS reply, the split of both streams and the
\* spawn of the two copy tasks
SReplySuccess ==
    /\ spc = "Connected"
    /\ \E wok \in WriteOutcomes(cClosed) :
         IF wok
         THEN /\ s2c' = s2c \o Rep(as_u8("SUCCESS"))
              /\ spc' = "Relaying" /\ sPhase' = "Negotiated"
              /\ relay' = {"client_to_upstream", "upstream_to_client"}
              /\ UNCHANGED <<serr, sFailedIn, sClosed, upstream>>
         ELSE /\ SFail(SrvIOError("BrokenPipe"), "reply")
              /\ UNCHANGED <<s2c, sPhase, relay>>
    /\ UNCHANGED <<sAuth, dns, reachable, scmd, clientVars, proxyUp, connected,
                   c2s, cRead, sRead, cClosed, envVars, codecVars,
                   relayVars, serveVars>>

ServerNext ==
    \/ SAccept \/ SHandshake \/ SAuthenticate \/ SHandleCommand
    \/ SReplyError \/ SConnect \/ SReplySuccess

(***************************************************************************)
(* A peer that is not this repository's code.  It writes whole protocol    *)
(* messages with bytes of its own choosing and may close at any time.  As  *)
(* a server it writes a reply header once a request has been written; the  *)
(* rest it writes when it likes, as a client also its request before its   *)
(* greeting is answered.                                                   *)
(***************************************************************************)
EnvVersions == {5, 4}
EnvMethodCodes == {0, 1, 2, 255}
EnvReps == 0..9 \cup {255}
EnvRsvs == {0, 1}
EnvAtyps == {1, 3, 4, 2}
EnvTunnelBytes == {0, 5}

Filler(n, b) == [i \in 1..n |-> b]

\* address fields a peer puts behind a reply header: 6 and 18 bytes, and
\* domain names of 0, 1 and 255 bytes with their length byte and port
EnvReplyBodies ==
    {Filler(6, 2), Filler(18, 2)}
        \cup {<<len>> \o Filler(len + 2, 5) : len \in {0, 1, 255}}

EnvIsServer == spc = "Env" /\ cpc # "Env" /\ connected /\ ~sClosed /\ ~cClosed

EnvSrvSelect ==
    /\ EnvIsServer /\ eStage = "none"
    /\ \E v \in EnvVersions, m \in EnvMethodCodes : s2c' = s2c \o <<v, m>>
    /\ eStage' = "selected"
    /\ UNCHANGED <<eTunnel, clientVars, proxyUp, connected, c2s, cRead, sRead,
                   cClosed, sClosed, serverVars, codecVars,
                   relayVars, serveVars>>

EnvSrvHeader ==
    /\ EnvIsServer /\ eStage = "selected" /\ Len(c2s) > 3
    /\ \E v \in EnvVersions, rep \in EnvReps, rsv \in EnvRsvs, atyp \in EnvAtyps :
         s2c' = s2c \o <<v, rep, rsv, atyp>>
    /\ eStage' = "header"
    /\ UNCHANGED <<eTunnel, clientVars, proxyUp, connected, c2s, cRead, sRead,
                   cClosed, sClosed, serverVars, codecVars,
                   relayVars, serveVars>>

EnvSrvAddr ==
    /\ EnvIsServer /\ eStage = "header"
    /\ \E body \in EnvReplyBodies : s2c' = s2c \o body
    /\ eStage' = "addr"
    /\ UNCHANGED <<eTunnel, clientVars, proxyUp, connected, c2s, cRead, sRead,
                   cClosed, sClosed, serverVars, codecVars,
                   relayVars, serveVars>>

EnvSrvData ==
    /\ EnvIsServer /\ eStage = "addr" /\ eTunnel < MaxTunnel
    /\ \E b \in EnvTunnelBytes : s2c' = s2c \o <<b>>
    /\ eTunnel' = eTunnel + 1
    /\ UNCHANGED <<eStage, clientVars, proxyUp, connected, c2s, cRead, sRead,
                   cClosed, sClosed, serverVars, codecVars,
                   relayVars, serveVars>>

EnvSrvClose ==
    /\ EnvIsServer
    /\ sClosed' = TRUE
    /\ UNCHANGED <<envVars, clientVars, proxyUp, connected, c2s, s2c, cRead,
                   sRead, cClosed, serverVars, codecVars,
                   relayVars, serveVars>>

EnvIsClient == cpc = "Env" /\ spc # "Env" /\ ~sClosed /\ ~cClosed

\* the method lists of a greeting
RECURSIVE SeqsUpTo(_, _)
SeqsUpTo(S, n) ==
    IF n = 0 THEN {<<>>}
    ELSE SeqsUpTo(S, n - 1)
            \cup {Append(q, x) : q \in {t \in SeqsUpTo(S, n - 1) : Len(t) = n - 1},
                                 x \in S}

\* address fields a peer puts behind a request header: an IPv4 and an
\* IPv6 address, domain names ("", "h", an invalid UTF-8 byte, 255 bytes)
\* and a domain name cut short
EnvRequestBodies ==
    {<<93, 184, 216, 34, 0, 80>>, [i \in 1..16 |-> i] \o <<1, 1>>, <<5, 104, 0>>}
        \cup {<<Len(h)>> \o h \o <<0, 80>> :
                h \in {<<>>, <<104>>, <<255>>, HostA(255)}}

EnvCliConnect ==
    /\ EnvIsClient /\ ~connected
    /\ connected' = TRUE
    /\ UNCHANGED <<envVars, clientVars, proxyUp, c2s, s2c, cRead, sRead, cClosed,
                   sClosed, serverVars, codecVars,
                   relayVars, serveVars>>

EnvCliGreeting ==
    /\ EnvIsClient /\ connected /\ eStage = "none"
    /\ \E v \in EnvVersions, methods \in SeqsUpTo(EnvMethodCodes \ {1}, MaxMethods) :
         c2s' = c2s \o <<v, Len(methods)>> \o methods
    /\ eStage' = "greeted"
    /\ UNCHANGED <<eTunnel, clientVars, proxyUp, connected, s2c, cRead, sRead,
                   cClosed, sClosed, serverVars, codecVars,
                   relayVars, serveVars>>

EnvCliRequest ==
    /\ EnvIsClient /\ eStage = "greeted"
    /\ \E v \in {5, 0}, cmd \in {1, 2}, rsv \in EnvRsvs, atyp \in {1, 3, 4, 9},
          body \in EnvRequestBodies :
         c2s' = c2s \o <<v, cmd, rsv, atyp>> \o body
    /\ eStage' = "requested"
    /\ UNCHANGED <<eTunnel, clientVars, proxyUp, connected, s2c, cRead, sRead,
                   cClosed, sClosed, serverVars, codecVars,
                   relayVars, serveVars>>

EnvCliClose ==
    /\ EnvIsClient /\ connected
    /\ cClosed' = TRUE
    /\ UNCHANGED <<envVars, clientVars, proxyUp, connected, c2s, s2c, cRead,
                   sRead, sClosed, serverVars, codecVars,
                   relayVars, serveVars>>

EnvNext ==
    \/ EnvSrvSelect \/ EnvSrvHeader \/ EnvSrvAddr \/ EnvSrvData \/ EnvSrvClose
    \/ EnvCliConnect \/ EnvCliGreeting \/ EnvCliRequest \/ EnvCliClose

(***************************************************************************)
(* The codec on its own: a destination is encoded as connect encodes it,   *)
(* and the bytes behind the 3-byte request header are decoded as           *)
(* handle_command decodes them behind a header it accepts; a reply code is *)
(* turned into its byte, and a byte into a reply code.                     *)
(***************************************************************************)
KEncode ==
    /\ kStage = "input"
    /\ kEnc' = connect_request(kDest)
    /\ kStage' = "encoded"
    /\ UNCHANGED <<kDest, kDec, rcVal, rcByte, rcBack, clientVars, netVars,
                   serverVars, envVars, relayVars, serveVars>>

\* ATYP ADDR PORT as the client wrote them
WireAddr(enc) == SubSeq(Buffer_content(enc.request), 4, enc.request.pos)

KDecode ==
    /\ kStage = "encoded" /\ kEnc.res = "ok"
    /\ \E answer \in DnsAnswers :
         kDec' = handle_command(
                     <<SOCKS_VER, SOCKS_COMMAND_CONNECT, SOCKS_RSV>> \o WireAddr(kEnc),
                     0, TRUE, answer)
    /\ kStage' = "decoded"
    /\ UNCHANGED <<kDest, kEnc, rcVal, rcByte, rcBack, clientVars, netVars,
                   serverVars, envVars, relayVars, serveVars>>

RcEncode ==
    /\ kStage = "value"
    /\ rcByte' = as_u8(rcVal)
    /\ kStage' = "byte"
    /\ UNCHANGED <<kDest, kEnc, kDec, rcVal, rcBack, clientVars, netVars,
                   serverVars, envVars, relayVars, serveVars>>

RcDecode ==
    /\ kStage = "byte"
    /\ rcBack' = SocksError_from(rcByte)
    /\ kStage' = "back"
    /\ UNCHANGED <<kDest, kEnc, kDec, rcVal, rcByte, clientVars, netVars,
                   serverVars, envVars, relayVars, serveVars>>

CodecNext == KEncode \/ KDecode \/ RcEncode \/ RcDecode

(***************************************************************************)
(* server.rs: the relay.  handle_client splits the client stream into      *)
(* conn_r and conn_w and the upstream stream into delegate_r and           *)
(* delegate_w and spawns one copy task per direction.  tokio::io::copy     *)
(* reads what its reader has into a buffer and writes the buffer to its    *)
(* writer, in chunks of any size, until the reader is at end-of-stream or  *)
(* a read or a write fails; on end-of-stream it writes what is left in the *)
(* buffer, flushes and returns.  copy then shuts its writer down.          *)
(***************************************************************************)
Dirs == {"client_to_upstream", "upstream_to_client"}

\* a wiring that hands the task of the client's bytes the client's own
\* write half
RelayWiring_echo ==
    [client_to_upstream |-> [r |-> "conn_r", w |-> "conn_w"],
     upstream_to_client |-> [r |-> "delegate_r", w |-> "conn_w"]]

\* handle_client, the halves each copy task is given
RelayWiring ==
    [client_to_upstream |-> [r |-> "conn_r", w |-> "delegate_w"],
     upstream_to_client |-> [r |-> "delegate_r", w |-> "conn_w"]]

\* the peer at the far end of a half
PeerOf(half) == IF half \in {"conn_r", "conn_w"} THEN "client" ELSE "upstream"

\* the bytes a read half can still read, and what a read of it finds once
\* they are used up: a peer that shut its writing side down or closed gives
\* end-of-stream, a peer that reset the connection gives an error
Unread(half) ==
    IF half = "conn_r" THEN SubSeq(c2s, sRead + 1, Len(c2s))
    ELSE SubSeq(u2s, uRead + 1, Len(u2s))

\* a write to a peer that closed or reset may fail
PeerGone(p) == peer[p] \in {"closed", "reset"}

RelayIdle ==
    /\ u2s = <<>> /\ s2u = <<>> /\ uRead = 0
    /\ copyBuf = [d \in Dirs |-> <<>>]
    /\ copyPc = [d \in Dirs |-> "copy"]
    /\ copyRes = [d \in Dirs |-> "none"]
    /\ wShut = [h \in {"conn_w", "delegate_w"} |-> 0]
    /\ peer = [p \in {"client", "upstream"} |-> "open"]

\* tokio::io::copy, a read: some of the unread bytes go into the buffer;
\* with none left the read finds end-of-stream, or fails, and a failure
\* makes copy return at once
CopyRead(d) ==
    /\ d \in relay /\ copyPc[d] = "copy" /\ copyRes[d] = "none"
    /\ LET r == RelayWiring[d].r
           avail == Unread(r)
       IN  \/ /\ avail # <<>>
              /\ \E n \in 1..Len(avail) :
                   /\ copyBuf' = [copyBuf EXCEPT ![d] = @ \o SubSeq(avail, 1, n)]
                   /\ IF r = "conn_r"
                      THEN sRead' = sRead + n /\ UNCHANGED uRead
                      ELSE uRead' = uRead + n /\ UNCHANGED sRead
              /\ UNCHANGED <<copyPc, copyRes>>
           \/ /\ avail = <<>> /\ peer[PeerOf(r)] \in {"shutdown", "closed"}
              /\ copyRes' = [copyRes EXCEPT ![d] = "eof"]
              /\ UNCHANGED <<copyBuf, copyPc, sRead, uRead>>
           \/ /\ peer[PeerOf(r)] = "reset"
              /\ copyRes' = [copyRes EXCEPT ![d] = "err"]
              /\ copyPc' = [copyPc EXCEPT ![d] = "shutdown"]
              /\ UNCHANGED <<copyBuf, sRead, uRead>>
    /\ UNCHANGED <<u2s, s2u, s2c, c2s, wShut, peer, clientVars, proxyUp,
                   connected, cRead, cClosed, sClosed, serverVars, envVars,
                   codecVars, serveVars>>

\* tokio::io::copy, a write: some bytes of the buffer go to the writer, in
\* the order they were read; a failed write makes copy return at once
CopyWrite(d) ==
    /\ d \in relay /\ copyPc[d] = "copy" /\ copyBuf[d] # <<>>
    /\ LET w == RelayWiring[d].w IN
       \E wok \in WriteOutcomes(PeerGone(PeerOf(w))) :
         IF wok
         THEN /\ \E n \in 1..Len(copyBuf[d]) :
                   /\ IF w = "conn_w"
                      THEN /\ s2c' = s2c \o SubSeq(copyBuf[d], 1, n)
                           /\ UNCHANGED s2u
                      ELSE /\ s2u' = s2u \o SubSeq(copyBuf[d], 1, n)
                           /\ UNCHANGED s2c
                   /\ copyBuf' = [copyBuf EXCEPT
                                     ![d] = SubSeq(@, n + 1, Len(@))]
              /\ UNCHANGED <<copyPc, copyRes>>
         ELSE /\ copyRes' = [copyRes EXCEPT ![d] = "err"]
              /\ copyPc' = [copyPc EXCEPT ![d] = "shutdown"]
              /\ UNCHANGED <<copyBuf, s2c, s2u>>
    /\ UNCHANGED <<u2s, uRead, sRead, c2s, wShut, peer, clientVars, proxyUp,
                   connected, cRead, cClosed, sClosed, serverVars, envVars,
                   codecVars, serveVars>>

\* tokio::io::copy, after end-of-stream and with its buffer written: the
\* flush and the return of Ok
CopyReturn(d) ==
    /\ d \in relay /\ copyPc[d] = "copy" /\ copyRes[d] = "eof" /\ copyBuf[d] = <<>>
    /\ copyPc' = [copyPc EXCEPT ![d] = "shutdown"]
    /\ UNCHANGED <<u2s, s2u, uRead, copyBuf, copyRes, wShut, peer, clientVars,
                   netVars, serverVars, envVars, codecVars, serveVars>>

\* a shutdown that closes the whole stream and with it ends the other
\* direction
CopyShutdown_all(d) ==
    /\ d \in relay /\ copyPc[d] = "shutdown"
    /\ wShut' = [h \in {"conn_w", "delegate_w"} |-> 1]
    /\ copyPc' = [e \in Dirs |-> "done"]
    /\ sClosed' = TRUE
    /\ upstream' = "closed"
    /\ UNCHANGED <<u2s, s2u, uRead, copyBuf, copyRes, peer, clientVars, proxyUp,
                   connected, c2s, s2c, cRead, sRead, cClosed, sAuth, dns,
                   reachable, spc, sPhase, serr, sFailedIn, scmd, relay,
                   envVars, codecVars, serveVars>>

\* copy, w.shutdown().await.unwrap_or(()): the writer is shut down whatever
\* copy returned, and the task ends and drops its two halves; when the
\* other direction has ended too, that drops the last half of both streams
CopyShutdown(d) ==
    /\ d \in relay /\ copyPc[d] = "shutdown"
    /\ wShut' = [wShut EXCEPT ![RelayWiring[d].w] = @ + 1]
    /\ copyPc' = [copyPc EXCEPT ![d] = "done"]
    /\ LET last == \A e \in Dirs \ {d} : copyPc[e] = "done" IN
       /\ sClosed' = last
       /\ upstream' = IF last THEN "closed" ELSE upstream
    /\ UNCHANGED <<u2s, s2u, uRead, copyBuf, copyRes, peer, clientVars, proxyUp,
                   connected, c2s, s2c, cRead, sRead, cClosed, sAuth, dns,
                   reachable, spc, sPhase, serr, sFailedIn, scmd, relay,
                   envVars, codecVars, serveVars>>

CopyTask(d) == CopyRead(d) \/ CopyWrite(d) \/ CopyReturn(d) \/ CopyShutdown(d)

\* the two peers of a relay: each writes bytes, shuts its writing side
\* down, closes, or resets the connection, when it likes.  The copy never
\* looks at a byte, so each peer numbers its bytes, the client from 1 and
\* the destination from 101: a byte that is lost, doubled, out of order or
\* on the wrong stream shows

\* the bytes of c2s that the negotiation took: the greeting and the request
NegotiatedLen == 2 + c2s[2] + scmd.used

\* what a peer has written to the relay
Written(p) ==
    IF p = "client" THEN SubSeq(c2s, NegotiatedLen + 1, Len(c2s)) ELSE u2s

PeerWrite(p) ==
    /\ spc = "Relaying" /\ peer[p] = "open" /\ Len(Written(p)) < MaxRelay
    /\ IF p = "client"
       THEN c2s' = Append(c2s, Len(Written(p)) + 1) /\ UNCHANGED u2s
       ELSE u2s' = Append(u2s, 100 + Len(Written(p)) + 1) /\ UNCHANGED c2s
    /\ UNCHANGED <<s2u, uRead, copyBuf, copyPc, copyRes, wShut, peer, clientVars,
                   proxyUp, connected, s2c, cRead, sRead, cClosed, sClosed,
                   serverVars, envVars, codecVars, serveVars>>

PeerEnd(p) ==
    /\ spc = "Relaying"
    /\ \E how \in {"shutdown", "closed", "reset"} :
         /\ \/ peer[p] = "open"
            \/ peer[p] = "shutdown" /\ how # "shutdown"
         /\ peer' = [peer EXCEPT ![p] = how]
         /\ cClosed' = IF p = "client" /\ how # "shutdown" THEN TRUE ELSE cClosed
    /\ UNCHANGED <<u2s, s2u, uRead, copyBuf, copyPc, copyRes, wShut, clientVars,
                   proxyUp, connected, c2s, s2c, cRead, sRead, sClosed,
                   serverVars, envVars, codecVars, serveVars>>


(***************************************************************************)
(* server.rs: Socks5Server::run with several connections.  The accept loop *)
(* spawns one task per accepted connection; the task runs handle_client    *)
(* and logs its error.  A failed accept ends run with the error.           *)
(***************************************************************************)
Conns == 1..MaxConns

\* a connection nobody has opened yet
NoConn ==
    [pc |-> "Absent", in |-> <<>>, rd |-> 0, gone |-> FALSE, out |-> <<>>,
     cmd |-> NoCmd, dst |-> "silent", log |-> NoSrvError]

ServeIdle ==
    /\ conns = [c \in Conns |-> NoConn]
    /\ listener = "idle"

\* the task of connection c ends with an error: run's closure logs it, and
\* the stream is dropped
Failed(conn, e) == [conn EXCEPT !.pc = "Failed", !.log = e]

\* an accept loop that awaits handle_client before it accepts again
RunAccept_inline ==
    /\ listener = "listening"
    /\ \A j \in Conns : conns[j].pc \in {"Absent", "Backlog", "Relaying", "Failed"}
    /\ \E c \in Conns :
         /\ conns[c].pc = "Backlog"
         /\ conns' = [conns EXCEPT ![c].pc = "PendingHandshake"]
    /\ UNCHANGED <<listener, clientVars, netVars, serverVars, envVars,
                   codecVars, relayVars>>

\* run, conn.accept().await and tokio::spawn of the connection's task
RunAccept ==
    /\ listener = "listening"
    /\ \E c \in Conns :
         /\ conns[c].pc = "Backlog"
         /\ conns' = [conns EXCEPT ![c].pc = "PendingHandshake"]
    /\ UNCHANGED <<listener, clientVars, netVars, serverVars, envVars,
                   codecVars,
                   relayVars>>

\* run, conn.accept().await?: accept fails and run returns the error; the
\* tasks already spawned go on
RunAcceptFails ==
    /\ listener = "listening"
    /\ listener' = "stopped"
    /\ UNCHANGED <<conns, clientVars, netVars, serverVars, envVars,
                   codecVars,
                   relayVars>>

\* handle_client of connection c, the handshake
HcHandshake(c) ==
    /\ conns[c].pc = "PendingHandshake"
    /\ LET k == conns[c]
           r == server_handshake(k.in, k.rd, k.gone, sAuth)
       IN  /\ r.st # "block"
           /\ IF r.st = "err"
              THEN conns' = [conns EXCEPT
                                ![c] = Failed([k EXCEPT !.rd = @ + r.used], r.err)]
              ELSE \E wok \in WriteOutcomes(k.gone) :
                     conns' = [conns EXCEPT ![c] =
                         IF wok
                         THEN [k EXCEPT !.rd = @ + r.used,
                                        !.out = @ \o server_selection(sAuth),
                                        !.pc = "PendingAuthenticate"]
                         ELSE Failed([k EXCEPT !.rd = @ + r.used],
                                     SrvIOError("BrokenPipe"))]
    /\ UNCHANGED <<listener, clientVars, netVars, serverVars, envVars,
                   codecVars,
                   relayVars>>

\* handle_client of connection c, authenticate
HcAuthenticate(c) ==
    /\ conns[c].pc = "PendingAuthenticate"
    /\ LET e == server_authenticate(sAuth) IN
       conns' = [conns EXCEPT ![c] =
                    IF e = NoSrvError THEN [@ EXCEPT !.pc = "PendingCommand"]
                    ELSE Failed(@, e)]
    /\ UNCHANGED <<listener, clientVars, netVars, serverVars, envVars,
                   codecVars,
                   relayVars>>

\* handle_client of connection c, conn.handle_command().await
HcCommand(c) ==
    /\ conns[c].pc = "PendingCommand"
    /\ LET k == conns[c]
           r == handle_command(k.in, k.rd, k.gone, dns)
       IN  /\ r.st # "block"
           /\ conns' = [conns EXCEPT ![c] =
                           [k EXCEPT !.rd = @ + r.used, !.cmd = r,
                                     !.pc = "CommandDone"]]
    /\ UNCHANGED <<listener, clientVars, netVars, serverVars, envVars,
                   codecVars,
                   relayVars>>

\* handle_client of connection c, the Err arm
HcReplyError(c) ==
    /\ conns[c].pc = "CommandDone" /\ conns[c].cmd.st = "err"
    /\ LET k == conns[c] IN
       \E wok \in WriteOutcomes(k.gone) :
         conns' = [conns EXCEPT ![c] =
             IF wok
             THEN Failed([k EXCEPT !.out = @ \o Rep(ErrorReplyCode(k.cmd.err))],
                         k.cmd.err)
             ELSE Failed(k, SrvIOError("BrokenPipe"))]
    /\ UNCHANGED <<listener, clientVars, netVars, serverVars, envVars,
                   codecVars,
                   relayVars>>

\* handle_client of connection c, TcpStream::connect(addr).await, which
\* waits until the destination answers, and the NETWORK reply
HcConnect(c) ==
    /\ conns[c].pc = "CommandDone" /\ conns[c].cmd.st = "ok"
    /\ conns[c].dst # "silent"
    /\ LET k == conns[c] IN
       IF k.dst = "accepts"
       THEN conns' = [conns EXCEPT ![c].pc = "Connected"]
       ELSE \E wok \in WriteOutcomes(k.gone) :
              conns' = [conns EXCEPT ![c] =
                  IF wok
                  THEN Failed([k EXCEPT !.out = @ \o Rep(as_u8("NETWORK"))],
                              SrvIOError("ConnectionRefused"))
                  ELSE Failed(k, SrvIOError("BrokenPipe"))]
    /\ UNCHANGED <<listener, clientVars, netVars, serverVars, envVars,
                   codecVars,
                   relayVars>>

\* handle_client of connection c, the SUCCESS reply and the spawn of the
\* copy tasks
HcReplySuccess(c) ==
    /\ conns[c].pc = "Connected"
    /\ LET k == conns[c] IN
       \E wok \in WriteOutcomes(k.gone) :
         conns' = [conns EXCEPT ![c] =
             IF wok
             THEN [k EXCEPT !.out = @ \o Rep(as_u8("SUCCESS")),
                            !.pc = "Relaying"]
             ELSE Failed(k, SrvIOError("BrokenPipe"))]
    /\ UNCHANGED <<listener, clientVars, netVars, serverVars, envVars,
                   codecVars,
                   relayVars>>

\* the task run spawns for connection c
HandleClient(c) ==
    \/ HcHandshake(c) \/ HcAuthenticate(c) \/ HcCommand(c)
    \/ HcReplyError(c) \/ HcConnect(c) \/ HcReplySuccess(c)

\* The peers of the connections.  Each connects, writes a greeting (whole,
\* or its first byte only), a request behind the selection it got, and
\* closes, when it likes or never; a destination answers a connect or
\* stays silent.
GuestConnect(c) ==
    /\ listener = "listening" /\ conns[c].pc = "Absent"
    /\ conns' = [conns EXCEPT ![c].pc = "Backlog"]
    /\ UNCHANGED <<listener, clientVars, netVars, serverVars, envVars,
                   codecVars,
                   relayVars>>

GuestGreet(c) ==
    /\ conns[c].pc # "Absent" /\ ~conns[c].gone /\ conns[c].in = <<>>
    /\ \E g \in {<<5, 1, 0>>, <<5, 1, 2>>, <<4, 1, 0>>, <<5>>} :
         conns' = [conns EXCEPT ![c].in = g]
    /\ UNCHANGED <<listener, clientVars, netVars, serverVars, envVars,
                   codecVars,
                   relayVars>>

GuestRequest(c) ==
    /\ ~conns[c].gone /\ Len(conns[c].in) = 3 /\ Len(conns[c].out) = 2
    /\ \E cmd \in {1, 2} :
         conns' = [conns EXCEPT
                      ![c].in = @ \o <<5, cmd, 0, 1, 93, 184, 216, 34, 0, 80>>]
    /\ UNCHANGED <<listener, clientVars, netVars, serverVars, envVars,
                   codecVars,
                   relayVars>>

GuestClose(c) ==
    /\ conns[c].pc # "Absent" /\ ~conns[c].gone
    /\ conns' = [conns EXCEPT ![c].gone = TRUE]
    /\ UNCHANGED <<listener, clientVars, netVars, serverVars, envVars,
                   codecVars,
                   relayVars>>

DestAnswer(c) ==
    /\ conns[c].pc = "CommandDone" /\ conns[c].cmd.st = "ok"
    /\ conns[c].dst = "silent"
    /\ \E a \in {"accepts", "refuses"} : conns' = [conns EXCEPT ![c].dst = a]
    /\ UNCHANGED <<listener, clientVars, netVars, serverVars, envVars,
                   codecVars,
                   relayVars>>

Guest(c) ==
    \/ GuestConnect(c) \/ GuestGreet(c) \/ GuestRequest(c) \/ GuestClose(c)
    \/ DestAnswer(c)


(***************************************************************************)
(* Specifications.  Four kinds of run: this client against this server,    *)
(* this client against any peer, any peer against this server, and the     *)
(* codec on its own.                                                       *)
(***************************************************************************)
InitE2E ==
    /\ ClientStart /\ NetStart /\ proxyUp \in BOOLEAN /\ ServerStart
    /\ EnvStart /\ CodecIdle /\ RelayIdle /\ ServeIdle

InitClient ==
    /\ ClientStart /\ NetStart /\ proxyUp \in BOOLEAN /\ ServerIdle
    /\ EnvStart /\ CodecIdle /\ RelayIdle /\ ServeIdle

InitServer ==
    /\ ClientIdle /\ NetStart /\ proxyUp = TRUE /\ ServerStart
    /\ EnvStart /\ CodecIdle /\ RelayIdle /\ ServeIdle

InitCodec ==
    /\ ClientIdle /\ NetStart /\ proxyUp = TRUE /\ ServerIdle /\ EnvStart
    /\ RelayIdle /\ ServeIdle
    /\ kEnc = NoEnc /\ kDec = NoCmd /\ rcBack = "none"
    /\ \/ /\ kDest \in CodecDests /\ kStage = "input"
          /\ rcVal = "none" /\ rcByte = -1
       \/ /\ kDest = NoAddr /\ kStage = "value"
          /\ rcVal \in SocksError /\ rcByte = -1
       \/ /\ kDest = NoAddr /\ kStage = "byte"
          /\ rcVal = "none" /\ rcByte \in Byte

Init == InitE2E \/ InitClient \/ InitServer \/ InitCodec

Next == ClientNext \/ ServerNext \/ EnvNext \/ CodecNext

Spec == Init /\ [][Next]_vars

\* every task of the client and of the server that can take its next step
\* takes it: the runtime polls each ready task.  A peer owes nothing.
FairSpec == Spec /\ WF_vars(ClientNext) /\ WF_vars(ServerNext)

\* The relay on its own, from a state in which handle_client has written
\* its SUCCESS reply and spawned both copy tasks: a peer has negotiated
\* with NoAuth a CONNECT to an IPv4 address or to the domain name "h".
InitRelay ==
    /\ ClientIdle /\ CodecIdle /\ RelayIdle /\ ServeIdle
    /\ proxyUp = TRUE /\ connected = TRUE
    /\ \E request \in {<<5, 1, 0, 1, 93, 184, 216, 34, 0, 80>>,
                       <<5, 1, 0, 3, 1, 104, 0, 80>>} :
         c2s = <<5, 1, 0>> \o request
    /\ s2c = server_selection("NoAuth") \o Rep(as_u8("SUCCESS"))
    /\ cRead = 0 /\ sRead = Len(c2s) /\ cClosed = FALSE /\ sClosed = FALSE
    /\ sAuth = "NoAuth" /\ dns = "found" /\ reachable = TRUE
    /\ spc = "Relaying" /\ sPhase = "Negotiated" /\ serr = NoSrvError
    /\ sFailedIn = "none" /\ scmd = handle_command(c2s, 3, FALSE, dns)
    /\ upstream = "open" /\ relay = Dirs
    /\ eStage = "requested" /\ eTunnel = 0

\* run on its own, with a peer per connection: the server is configured
\* with NoAuth or UserPass and is listening (server.rs:50)
InitServe ==
    /\ ClientIdle /\ NetStart /\ proxyUp = TRUE /\ EnvStart /\ CodecIdle
    /\ RelayIdle
    /\ sAuth \in {"NoAuth", "UserPass"} /\ dns = "found" /\ reachable = TRUE
    /\ spc = "Env" /\ sPhase = "Fresh" /\ serr = NoSrvError
    /\ sFailedIn = "none" /\ scmd = NoCmd /\ upstream = "none" /\ relay = {}
    /\ conns = [c \in Conns |-> NoConn]
    /\ listener = "listening"

NextServe ==
    \/ RunAccept \/ RunAcceptFails
    \/ \E c \in Conns : HandleClient(c) \/ Guest(c)

SpecServe == InitServe /\ [][NextServe]_vars

NextRelay ==
    \/ \E d \in Dirs : CopyTask(d)
    \/ \E p \in {"client", "upstream"} : PeerWrite(p) \/ PeerEnd(p)

SpecRelay == InitRelay /\ [][NextRelay]_vars

\* each copy task that can take a step takes it; the peers owe nothing
FairSpecRelay == SpecRelay /\ \A d \in Dirs : WF_vars(CopyTask(d))

(***************************************************************************)
(* Properties                                                              *)
(***************************************************************************)
\* this client against this server
E2E == cpc # "Env" /\ spc # "Env"

\* what the client has written behind its 3-byte greeting
ClientRequest == SubSeq(c2s, 4, Len(c2s))

\* C1: every CONNECT request the client's connect phase writes starts
\* VER = 0x05, CMD = 0x01, RSV = 0x00, followed by ATYP ADDR PORT.
C1_RequestLayout ==
    (cpc # "Env" /\ Len(c2s) > 3) =>
        /\ ClientRequest[1] = 5
        /\ ClientRequest[2] = 1
        /\ ClientRequest[3] = 0
        /\ ClientRequest[4] \in {1, 3, 4}

\* C2: with the client and the server both on no-auth, an IPv4
\* destination and a destination that accepts the connection, once both
\* sides have finished the server has written a SUCCESS reply and started
\* the relay, and client::new has returned the stream.
C2_EndToEndSuccess ==
    ( /\ E2E /\ proxyUp /\ reachable
      /\ cAuth = "NoAuth" /\ sAuth = "NoAuth" /\ dest.kind = "V4"
      /\ cpc \in {"Established", "Failed", "Panicked"}
      /\ spc \in {"Relaying", "Failed"} ) =>
        /\ spc = "Relaying"
        /\ relay = {"client_to_upstream", "upstream_to_client"}
        /\ Len(s2c) = 12 /\ s2c[4] = 0
        /\ cpc = "Established" /\ cRet = "Ok"

\* C3: when a well-formed CONNECT request for a domain name has been
\* decoded and the lookup fails, by an error or by an empty answer, the
\* reply the server writes has REP = 0x04, and no upstream connection and
\* no relay exist.
C3_ResolutionFailureReply ==
    ( /\ spc = "Failed" /\ sFailedIn = "command"
      /\ scmd.target.kind = "Domain" /\ dns \in {"error", "empty"}
      /\ serr.kind # "BrokenPipe" ) =>
        /\ Len(s2c) = 12 /\ s2c[4] = 4
        /\ upstream = "none" /\ relay = {}

\* C4: each of the nine reply codes, turned into its byte and decoded
\* back, is the same code; every byte outside 0x00-0x08 decodes to the
\* catch-all code.
C4_ReplyCodeRoundTrip ==
    kStage = "back" =>
        /\ rcVal \in ReplyCodes => rcBack = rcVal
        /\ (rcVal = "none" /\ rcByte > 8) => rcBack = "OTHOR"

\* a hostname:port text with one ':', a hostname of 1 to 255 bytes and a
\* decimal port of at most 65535
ValidHostPort(text) ==
    \E c \in 1..Len(text) :
        /\ \A i \in 1..Len(text) : text[i] = COLON <=> i = c
        /\ c - 1 >= 1 /\ c - 1 <= 255
        /\ c < Len(text)
        /\ \A i \in (c + 1)..Len(text) : IsDigit(text[i])
        /\ DigitsValue(SubSeq(text, c + 1, Len(text)), 0) <= 65535

ValidDest(d) ==
    d.kind \in {"V4", "V6"} \/ (d.kind = "HostnamePort" /\ ValidHostPort(d.text))

HostOf(text) == SplitNext(text, 1).piece

PortOf(text) ==
    DigitsValue(SubSeq(text, Len(HostOf(text)) + 2, Len(text)), 0)

\* C5: every valid destination is encoded without failure, and decoding
\* the encoded ATYP ADDR PORT yields the same address, or the same
\* hostname bytes, and the same port.
C5_AddressRoundTrip ==
    (kStage \in {"encoded", "decoded"} /\ ValidDest(kDest)) =>
        /\ kEnc.res = "ok"
        /\ kStage = "decoded" =>
             IF kDest.kind = "HostnamePort"
             THEN /\ kDec.target.kind = "Domain"
                  /\ kDec.target.text = HostOf(kDest.text)
                  /\ kDec.target.port = PortOf(kDest.text)
             ELSE /\ kDec.st = "ok"
                  /\ kDec.addr.kind = kDest.kind
                  /\ kDec.addr.ip = kDest.ip
                  /\ kDec.addr.port = kDest.port

BothAuthenticated ==
    /\ cPhase \in {"Authenticated", "Negotiated"}
    /\ sPhase \in {"Authenticated", "Negotiated"}

\* C6 as claimed: whatever method the client offers and the server is
\* configured with, when they agree neither side fails in its handshake
\* or authenticate step.
C6_AgreementAnyMethod ==
    (E2E /\ cAuth = sAuth) =>
        /\ cFailedIn \notin {"handshake", "authenticate"}
        /\ sFailedIn \notin {"handshake", "authenticate"}

\* C6 as amended: when the client offers NoAuth and the server is
\* configured with NoAuth, negotiation completes on both sides: neither
\* side fails in its handshake or authenticate step, and until the client
\* has reached PendingConnect and the server PendingCommand one of them
\* can take its next step.
C6_AgreementNoAuth ==
    (E2E /\ proxyUp /\ cAuth = "NoAuth" /\ sAuth = "NoAuth") =>
        /\ cFailedIn \notin {"handshake", "authenticate"}
        /\ sFailedIn \notin {"handshake", "authenticate"}
        /\ BothAuthenticated \/ ENABLED (ClientNext \/ ServerNext)

C6_Witness ==
    /\ E2E /\ cAuth = "NoAuth" /\ sAuth = "NoAuth"
    /\ cpc = "PendingConnect" /\ spc = "PendingCommand"
    /\ cPhase = "Authenticated" /\ sPhase = "Authenticated"

\* C7: when the offered and the configured method differ, the server's
\* handshake fails with UnsupportAuth and the client's handshake fails
\* with an unsupported-method error, not with an I/O error of the
\* transport.
C7_MismatchBothUnsupported ==
    (E2E /\ proxyUp /\ cAuth # sAuth) =>
        /\ spc = "Failed" => (sFailedIn = "handshake" /\ serr.tag = "UnsupportAuth")
        /\ cpc = "Failed" =>
             /\ cFailedIn = "handshake"
             /\ cerr.kind \in {"ConnectionRefused", "ConnectionAborted"}
        /\ cPhase = "Fresh" /\ sPhase = "Fresh"

\* the address and port bytes behind the reply header, by the header's
\* ATYP and, for a domain name, its length byte
ReplyAddrLen ==
    CASE s2c[6] = 1 -> 6
      [] s2c[6] = 4 -> 18
      [] s2c[6] = 3 -> 1 + s2c[7] + 2

\* the client has read a reply header with valid VER and RSV and a known
\* ATYP, the whole reply is in the stream, and connect has returned
ReplyHandled ==
    /\ cHeader # <<>> /\ cHeader[1] = 5 /\ cHeader[3] = 0
    /\ cHeader[4] \in {1, 3, 4}
    /\ Len(s2c) >= 7 /\ Len(s2c) >= 6 + ReplyAddrLen
    /\ cpc \in {"Established", "Failed"}

C9_StreamPositionedAfterReply ==
    (cpc # "Env" /\ cRet = "Ok") =>
        /\ s2c[6] \in {1, 3, 4}
        /\ cRead = 2 + 4 + ReplyAddrLen

C9_Witness ==
    /\ cRet = "Ok" /\ s2c[6] = 3 /\ s2c[7] = 255
    /\ cRead = 264 /\ Len(s2c) = cRead + 1

\* the reply code a reply byte stands for
ReplyCodeOf(b) ==
    CASE b = 1 -> "FAIL"
      [] b = 2 -> "DENY"
      [] b = 3 -> "NETWORK"
      [] b = 4 -> "HOST"
      [] b = 5 -> "CONNECTION"
      [] b = 6 -> "TTL"
      [] b = 7 -> "COMMAND"
      [] b = 8 -> "ADDRESS"
      [] OTHER -> "OTHOR"

\* C10: a reply header with VER = 0x05, RSV = 0x00 and a non-zero REP
\* byte makes connect fail with an error that carries the reply code the
\* byte stands for, and client::new returns no stream.
C10_NonZeroReplyTypedError ==
    (cHeader # <<>> /\ cHeader[1] = 5 /\ cHeader[3] = 0 /\ cHeader[2] # 0) =>
        /\ cpc = "Failed" /\ cRet = "Err" /\ cFailedIn = "connect"
        /\ cerr.kind = "ConnectionAborted" /\ cerr.what = "SocksError"
        /\ cerr.code = ReplyCodeOf(cHeader[2])

C10_Witness ==
    /\ cHeader # <<>> /\ cHeader[1] = 5 /\ cHeader[3] = 0 /\ cHeader[2] = 4
    /\ cpc = "Failed" /\ cerr.code = "HOST"

\* the length of the greeting a peer wrote: VER, NMETHODS and the methods
GreetingLen == 2 + c2s[2]

\* the 4-byte header of the command request behind the greeting
RequestHeader == SubSeq(c2s, GreetingLen + 1, GreetingLen + 4)

\* what the server wrote behind its 2-byte selection
CommandReply == SubSeq(s2c, 3, Len(s2c))

\* handle_client returned an error from its command or connect step and the
\* stream holds a whole request header
CommandRefused ==
    /\ cpc = "Env" /\ spc = "Failed" /\ sFailedIn \in {"command", "connect"}
    /\ Len(c2s) >= 2 /\ Len(c2s) >= GreetingLen + 4

\* C11: behind a request header the server answers a bad VER or RSV with
\* REP 0x01, with valid VER and RSV a command other than CONNECT with REP
\* 0x07 and CONNECT with an unknown ATYP with REP 0x08, and a failed
\* outbound connect with REP 0x03; the reply is the 10-byte placeholder
\* reply, it is written whenever the peer is still there, and the
\* connection ends with no relay task.
C11_ErrorReplyMapping ==
    CommandRefused =>
        LET h == RequestHeader IN
        /\ relay = {} /\ sClosed /\ upstream # "open"
        /\ Len(s2c) \in {2, 12}
        /\ ~cClosed => Len(s2c) = 12
        /\ Len(s2c) = 12 =>
             /\ (h[1] # 5 \/ h[3] # 0) => CommandReply = Rep(1)
             /\ (h[1] = 5 /\ h[3] = 0 /\ h[2] # 1) => CommandReply = Rep(7)
             /\ (h[1] = 5 /\ h[3] = 0 /\ h[2] = 1 /\ h[4] \notin {1, 3, 4}) =>
                    CommandReply = Rep(8)
             /\ sFailedIn = "connect" => CommandReply = Rep(3)

C11_Witness ==
    /\ CommandRefused /\ RequestHeader = <<5, 2, 0, 9>>
    /\ CommandReply = Rep(7) /\ relay = {} /\ sClosed

\* the client's handshake has read a 2-byte selection reply and returned
SelectionHandled ==
    /\ cpc \notin {"Env", "New", "PendingHandshake", "HandshakeRead"}
    /\ cRead >= 2

HandshakeFailedWith(kind) ==
    cpc = "Failed" /\ cFailedIn = "handshake" /\ cerr.kind = kind

\* C12 as claimed: a selection reply (v, s) behind an offer of method m
\* fails with ConnectionAborted when v is not 5, with ConnectionRefused
\* when s is 0xFF, with ConnectionAborted when s is any other byte that
\* is not m's code, and succeeds otherwise.
C12_FailureKindsAnyOtherByte ==
    SelectionHandled =>
        LET v == s2c[1]
            s == s2c[2]
        IN  IF v # 5 THEN HandshakeFailedWith("ConnectionAborted")
            ELSE IF s = 255 THEN HandshakeFailedWith("ConnectionRefused")
            ELSE IF s # to_code(cAuth) THEN HandshakeFailedWith("ConnectionAborted")
            ELSE cFailedIn # "handshake" /\ cPhase # "Fresh"

\* C12 as amended: a selection reply (v, s) behind an offer of method m
\* fails with ConnectionAborted when v is not 5, with ConnectionRefused
\* when s is 0xFF or a code the client does not know (not 0x00, 0x02 or
\* 0xFF), with ConnectionAborted when s is a known code that is not m's
\* code, and succeeds only when v is 5 and s is m's code and not 0xFF.
C12_FailureKindsKnownCodes ==
    SelectionHandled =>
        LET v == s2c[1]
            s == s2c[2]
        IN  IF v # 5 THEN HandshakeFailedWith("ConnectionAborted")
            ELSE IF s \notin {0, 2} THEN HandshakeFailedWith("ConnectionRefused")
            ELSE IF s # to_code(cAuth) THEN HandshakeFailedWith("ConnectionAborted")
            ELSE cFailedIn # "handshake" /\ cPhase # "Fresh"

C12_Witness ==
    /\ SelectionHandled /\ s2c[1] = 5 /\ s2c[2] = 1
    /\ HandshakeFailedWith("ConnectionRefused")
    /\ cerr.what = "unsupported authenticate method"

\* the caller's destination is text whose hostname is longer than 255 bytes
OversizedHostname ==
    /\ cpc # "Env" /\ dest.kind = "HostnamePort"
    /\ Len(HostOf(dest.text)) > U8_MAX

\* C13: with a hostname longer than 255 bytes connect fails locally with
\* InvalidInput: nothing but the 3-byte greeting is ever written to the
\* proxy, connect never waits for a reply, and client::new returns no
\* stream.
C13_OversizedHostnameLocal ==
    OversizedHostname =>
        /\ Len(c2s) <= 3
        /\ cpc \notin {"ConnectRead", "ExtractAddress", "Established", "Panicked"}
        /\ cRet # "Ok"
        /\ cFailedIn = "connect" =>
             /\ cpc = "Failed" /\ cRet = "Err"
             /\ cerr = IoError("InvalidInput", "hostname too long")

C13_Witness ==
    /\ OversizedHostname /\ Len(HostOf(dest.text)) = 300
    /\ cPhase = "Authenticated" /\ cpc = "Failed" /\ cFailedIn = "connect"
    /\ cerr.kind = "InvalidInput" /\ c2s = client_greeting(cAuth)

\* C14: the text of a destination is accepted exactly when one ':'
\* separates a non-empty hostname of at most 255 bytes from a decimal port
\* of 0 to 65535, and every other text fails with an input-validation
\* error.
C14_HostnameTextStrictness ==
    (kStage \in {"encoded", "decoded"} /\ kDest.kind = "HostnamePort") =>
        IF ValidHostPort(kDest.text)
        THEN kEnc.res = "ok"
        ELSE kEnc.res = "err" /\ kEnc.err.kind = "InvalidInput"

\* the bytes a direction has delivered to its destination: what was
\* written to the destination's stream behind the negotiation
Delivered(d) ==
    IF d = "client_to_upstream" THEN s2u
    ELSE SubSeq(s2c, 2 + 10 + 1, Len(s2c))

\* the peer a direction reads from, and the peer it writes to
SourceOf(d) == IF d = "client_to_upstream" THEN "client" ELSE "upstream"
DestinationOf(d) == IF d = "client_to_upstream" THEN "upstream" ELSE "client"

IsPrefix(s, t) == Len(s) <= Len(t) /\ s = SubSeq(t, 1, Len(s))

\* C15, at every moment: behind the SUCCESS reply, what each direction has
\* delivered is a prefix of what its source has written behind the
\* negotiation, and what it holds in its buffer continues that prefix.
RelayPrefix ==
    spc = "Relaying" =>
        \A d \in Dirs :
            /\ IsPrefix(Delivered(d), Written(SourceOf(d)))
            /\ IsPrefix(Delivered(d) \o copyBuf[d], Written(SourceOf(d)))

\* C15: in each direction the bytes delivered are at every moment a prefix
\* of the bytes the source wrote behind the negotiation, and once the
\* source has shut its writing side down or closed, every byte it wrote is
\* eventually delivered, unless the destination closes or resets or the
\* source resets the connection.
C15_RelayDataIntegrity ==
    /\ []RelayPrefix
    /\ \A d \in Dirs :
         (peer[SourceOf(d)] \in {"shutdown", "closed"})
            ~> \/ Delivered(d) = Written(SourceOf(d))
               \/ PeerGone(DestinationOf(d))
               \/ peer[SourceOf(d)] = "reset"

C15_Witness ==
    /\ spc = "Relaying" /\ peer = [p \in {"client", "upstream"} |-> "shutdown"]
    /\ Len(Written("client")) = 2 /\ Delivered("client_to_upstream") = Written("client")
    /\ Len(Written("upstream")) = 2 /\ Delivered("upstream_to_client") = Written("upstream")
    /\ \A d \in Dirs : copyPc[d] = "done" /\ copyRes[d] = "eof"

OtherDir(d) == CHOOSE e \in Dirs : e # d

\* the write half that is the destination of a direction
DestinationHalf(d) == IF d = "client_to_upstream" THEN "delegate_w" ELSE "conn_w"

\* C16, at every moment: a direction has shut down the write half of its
\* own destination once when it has ended, and not before; it does so only
\* after its copy found end-of-stream or failed; neither stream is dropped
\* while a direction still runs; and a direction that still copies can read
\* what its source has written and write what it holds, whatever the other
\* direction has done.
HalfCloseOnce ==
    spc = "Relaying" =>
        \A d \in Dirs :
            /\ wShut[DestinationHalf(d)] = IF copyPc[d] = "done" THEN 1 ELSE 0
            /\ copyPc[d] \in {"shutdown", "done"} => copyRes[d] \in {"eof", "err"}
            /\ copyPc[d] = "shutdown" => ENABLED CopyShutdown(d)
            /\ copyPc[d] # "done" => ~sClosed /\ upstream = "open"
            /\ (copyPc[d] = "copy" /\ copyRes[d] = "none"
                    /\ Unread(RelayWiring[d].r) # <<>>) => ENABLED CopyRead(d)
            /\ (copyPc[d] = "copy" /\ copyBuf[d] # <<>>) => ENABLED CopyWrite(d)

\* C16, in every step: a step of one direction leaves the other direction's
\* task, its buffer and the write half of its destination as they were.
OtherDirectionUntouched ==
    \A d \in Dirs :
        CopyTask(d) =>
            /\ copyPc'[OtherDir(d)] = copyPc[OtherDir(d)]
            /\ copyRes'[OtherDir(d)] = copyRes[OtherDir(d)]
            /\ copyBuf'[OtherDir(d)] = copyBuf[OtherDir(d)]
            /\ wShut'[DestinationHalf(OtherDir(d))] = wShut[DestinationHalf(OtherDir(d))]

\* C16: each direction, when its source is at end-of-stream or its copy
\* fails, shuts down the write half of its own destination exactly once
\* and then ends; this never ends the other direction, which keeps
\* forwarding; and once the source has shut down, closed or reset, the
\* direction eventually performs its half-close and ends.
C16_RelayHalfClose ==
    /\ []HalfCloseOnce
    /\ [][OtherDirectionUntouched]_vars
    /\ \A d \in Dirs :
         (peer[SourceOf(d)] # "open")
            ~> (copyPc[d] = "done" /\ wShut[DestinationHalf(d)] = 1)

C16_Witness ==
    /\ spc = "Relaying"
    /\ copyPc["client_to_upstream"] = "done" /\ copyRes["client_to_upstream"] = "eof"
    /\ wShut = [h \in {"conn_w", "delegate_w"} |-> IF h = "delegate_w" THEN 1 ELSE 0]
    /\ copyPc["upstream_to_client"] = "copy" /\ copyRes["upstream_to_client"] = "none"
    /\ Len(Delivered("upstream_to_client")) = 1 /\ Len(copyBuf["upstream_to_client"]) = 1
    /\ ~sClosed /\ upstream = "open"

\* connection c waits for bytes its peer has not written, or for a
\* destination that has not answered: its task cannot take a step
Stalled(c) ==
    /\ conns[c].pc \in {"PendingHandshake", "PendingCommand", "CommandDone"}
    /\ ~conns[c].gone
    /\ ~ENABLED HandleClient(c)

\* the peer of connection c has written what the connection's next step
\* reads, or the step reads nothing
Supplied(c) ==
    LET k == conns[c] IN
    \/ k.pc = "PendingHandshake" /\ Len(k.in) >= 2 /\ Len(k.in) >= 2 + k.in[2]
    \/ k.pc = "PendingAuthenticate"
    \/ k.pc = "PendingCommand" /\ Len(k.in) >= k.rd + 10
    \/ k.pc = "CommandDone" /\ (k.cmd.st = "err" \/ k.dst # "silent")
    \/ k.pc = "Connected"

\* C17, at every moment: whatever the other connections do, stalled, failed
\* or running, the accept loop can accept a connection that waits, unless
\* accept itself has failed, and a connection whose peer has supplied its
\* input can take its next step; a connection has failed exactly when its
\* error was logged, and then its task has ended.
ConnectionsIndependent ==
    listener # "idle" =>
        /\ (listener = "listening" /\ \E c \in Conns : conns[c].pc = "Backlog")
               => ENABLED RunAccept
        /\ \A c \in Conns :
             /\ Supplied(c) => ENABLED HandleClient(c)
             /\ conns[c].pc = "Failed" <=> conns[c].log # NoSrvError
             /\ conns[c].pc \in {"Failed", "Relaying"} => ~ENABLED HandleClient(c)

\* C17, in every step: a step of one connection's task or of its peer
\* leaves every other connection as it was, and a step of a task leaves
\* the accept loop as it was.
OtherConnectionsUntouched ==
    \A c \in Conns :
        /\ (HandleClient(c) \/ Guest(c)) =>
               \A j \in Conns \ {c} : conns'[j] = conns[j]
        /\ HandleClient(c) => listener' = listener

\* C17: with several connections, one that stalls in any phase or fails
\* with any error never keeps the accept loop from accepting another and
\* never keeps another connection from its handshake, command and relay;
\* a failure is logged and ends the task of that connection only.
C17_ConnectionIsolation ==
    /\ []ConnectionsIndependent
    /\ [][OtherConnectionsUntouched]_vars

C17_Witness ==
    /\ listener = "listening"
    /\ Stalled(1) /\ conns[1].pc = "PendingHandshake" /\ conns[1].in = <<5>>
    /\ conns[2].pc = "Relaying"
    /\ conns[2].out = <<5, 0>> \o Rep(0)

\* a destination that passes every check parse_dest makes: an address, or
\* text of two pieces with a hostname of at most 255 bytes and a port that
\* parses as u16
PassesValidation(d) ==
    \/ d.kind \in {"V4", "V6"}
    \/ /\ d.kind = "HostnamePort"
       /\ LET hostname == SplitNext(d.text, 1)
              port == SplitNext(d.text, hostname.next)
          IN  /\ hostname.some /\ port.some
              /\ ~SplitNext(d.text, port.next).some
              /\ ~HostnameTooLong(hostname.piece)
              /\ parse_u16(port.piece).ok

\* C18: for every destination that passes input validation, a hostname of
\* exactly 255 bytes included, every push and extend stays inside the
\* 261-byte buffer: the position never exceeds 261 and no write indexes
\* out of bounds.
C18_CodecBufferBound ==
    (kStage \in {"encoded", "decoded"} /\ PassesValidation(kDest)) =>
        /\ ~kEnc.request.panicked
        /\ kEnc.request.pos <= CONNECT_BUFFER_LEN
        /\ kEnc.res = "ok"

\* the reply with REP = 0x00 stands in the stream behind the selection
SuccessReplied == Len(s2c) >= 12 /\ SubSeq(s2c, 3, 12) = Rep(0)

\* C19, at every moment on a server connection: a SUCCESS reply in the
\* stream means the outbound connection was made; relay tasks exist only
\* behind the whole SUCCESS reply, both of them; and a failed write of the
\* reply leaves no relay task and no reply.
SuccessOrdered ==
    spc # "Env" =>
        /\ SuccessReplied =>
             /\ upstream # "none" /\ scmd.st = "ok" /\ reachable
             /\ spc = "Relaying"
        /\ relay # {} =>
             /\ SuccessReplied /\ Len(s2c) = 12
             /\ relay = Dirs /\ upstream = "open"
        /\ sFailedIn = "reply" =>
             /\ relay = {} /\ ~SuccessReplied /\ spc = "Failed"
             /\ serr = SrvIOError("BrokenPipe")

\* C19, in every step: the outbound connection is made in a step before
\* the one that writes the SUCCESS reply, and the relay tasks are spawned
\* by the step that writes the whole reply and by no other.
SuccessSteps ==
    spc # "Env" =>
        /\ (~SuccessReplied /\ SuccessReplied') =>
               (upstream = "open" /\ spc = "Connected")
        /\ (relay = {} /\ relay' # {}) => (~SuccessReplied /\ SuccessReplied')

\* C19: a reply with REP = 0x00 is written only after the outbound
\* connection is established, the two relay tasks are started only after
\* that reply is completely written, and no relay task is started when
\* writing the reply fails.
C19_SuccessOrdering ==
    /\ []SuccessOrdered
    /\ [][SuccessSteps]_vars

C19_Witness ==
    /\ cpc = "Env" /\ spc = "Failed" /\ sFailedIn = "reply"
    /\ upstream = "closed" /\ relay = {} /\ Len(s2c) = 2 /\ cClosed

\* the phases in their order
PhaseRank(phase) ==
    CASE phase = "Fresh" -> 0
      [] phase = "HandshakeDone" -> 1
      [] phase = "Authenticated" -> 2
      [] phase = "Negotiated" -> 3

\* the steps of client::new and of handle_client in their order; a failed
\* or panicked connection has ended
ClientRank(pc) ==
    CASE pc = "New" -> 0
      [] pc = "PendingHandshake" -> 1
      [] pc = "HandshakeRead" -> 2
      [] pc = "PendingAuthenticate" -> 3
      [] pc = "PendingConnect" -> 4
      [] pc = "ConnectRead" -> 5
      [] pc = "ExtractAddress" -> 6
      [] pc = "Established" -> 7
      [] OTHER -> 8

ServerRank(pc) ==
    CASE pc = "Listening" -> 0
      [] pc = "PendingHandshake" -> 1
      [] pc = "PendingAuthenticate" -> 2
      [] pc = "PendingCommand" -> 3
      [] pc = "CommandDone" -> 4
      [] pc = "Connected" -> 5
      [] pc = "Relaying" -> 6
      [] OTHER -> 7

\* C20, at every moment: each side is in the phase its position belongs
\* to; a failure leaves the phase where it was reached; the server has
\* written its selection before it reads a request; and the client has
\* read a selection that matches its offer before it writes a request.
PhasesInOrder ==
    /\ cpc # "Env" =>
         /\ cpc \in {"New", "PendingHandshake", "HandshakeRead"} => cPhase = "Fresh"
         /\ cpc = "PendingAuthenticate" => cPhase = "HandshakeDone"
         /\ cpc \in {"PendingConnect", "ConnectRead", "ExtractAddress"}
                => cPhase = "Authenticated"
         /\ cpc = "Established" <=> cPhase = "Negotiated"
         /\ cFailedIn \in {"tcp", "handshake"} => cPhase = "Fresh"
         /\ cFailedIn = "authenticate" => cPhase = "HandshakeDone"
         /\ cFailedIn = "connect" => cPhase = "Authenticated"
         /\ Len(c2s) > 3 =>
              /\ cRead >= 2 /\ SubSeq(s2c, 1, 2) = <<5, to_code(cAuth)>>
              /\ PhaseRank(cPhase) >= 2
    /\ spc # "Env" =>
         /\ spc \in {"Listening", "PendingHandshake"} => sPhase = "Fresh"
         /\ spc = "PendingAuthenticate" => sPhase = "HandshakeDone"
         /\ spc \in {"PendingCommand", "CommandDone", "Connected"}
                => sPhase = "Authenticated"
         /\ spc = "Relaying" <=> sPhase = "Negotiated"
         /\ sFailedIn = "handshake" => sPhase = "Fresh"
         /\ sFailedIn = "authenticate" => sPhase = "HandshakeDone"
         /\ sFailedIn \in {"command", "connect", "reply"} => sPhase = "Authenticated"
         /\ (scmd # NoCmd \/ PhaseRank(sPhase) >= 2) =>
              /\ Len(s2c) >= 2 /\ SubSeq(s2c, 1, 2) = server_selection(sAuth)
              /\ Len(c2s) >= 2 /\ sRead >= GreetingLen

\* C20, in every step: a phase stays or advances to the next one, a
\* position never goes back, the server reads request bytes only behind
\* its selection, and a side that has failed does nothing more.
PhaseSteps ==
    /\ PhaseRank(cPhase') \in {PhaseRank(cPhase), PhaseRank(cPhase) + 1}
    /\ PhaseRank(sPhase') \in {PhaseRank(sPhase), PhaseRank(sPhase) + 1}
    /\ cpc # "Env" => ClientRank(cpc') >= ClientRank(cpc)
    /\ spc # "Env" => ServerRank(spc') >= ServerRank(spc)
    /\ (spc # "Env" /\ sRead' > sRead /\ sPhase # "Fresh") => Len(s2c) >= 2
    /\ (cpc # "Env" /\ ClientRank(cpc) = 8) =>
           UNCHANGED <<clientVars, c2s, cRead>>
    /\ (spc = "Failed") =>
           UNCHANGED <<spc, sPhase, serr, sFailedIn, scmd, relay, s2c, sRead>>

\* C20: on every connection, client or server, the phase only advances in
\* the order handshake, authenticate, command or connect, established or
\* relaying, none skipped or revisited; the server never reads a request
\* before it has written its selection; the client never writes a request
\* before it has received a matching selection; and a failed phase ends
\* the connection with no later phase run.
C20_PhaseMonotonicity ==
    /\ []PhasesInOrder
    /\ [][PhaseSteps]_vars

C20_Witness ==
    /\ cpc = "Established" /\ cPhase = "Negotiated" /\ cRet = "Ok"
    /\ Len(c2s) > 3 /\ cRead >= 2 + 4 + 6
    /\ SubSeq(s2c, 1, 2) = <<5, to_code(cAuth)>>

====
